---- MODULE Spec2Model ----
(***************************************************************************)
(* The canvas editing engine of FrameFlow (src/src/components/Canvas.tsx): *)
(* the scene graph held by the fabric canvas, the undo/redo history, the   *)
(* internal object clipboard and its reconciliation with the system        *)
(* clipboard.  lastCopyWasInternal (Canvas.tsx 76) is only ever written,   *)
(* never read; it is left out.                                             *)
(*                                                                         *)
(* JavaScript objects are modelled by reference: `heap` maps a reference   *)
(* to the attributes of the object it denotes, `objects` is the canvas'    *)
(* ordered list of references, the selection and the local arrays of the   *)
(* pending paste callbacks hold references.  Everything the code does      *)
(* asynchronously (image decodes, fabric's clone() of an image, fabric's   *)
(* loadFromJSON of a snapshot that holds an image) is a message in flight  *)
(* whose completion is a separate action; a handler runs to completion.    *)
(***************************************************************************)
EXTENDS Integers, Sequences, FiniteSets, Bags, TLC

\* ---------------------------------------------------------------- bounds
MaxObjects == 2      \* objects on the canvas
MaxHistory == 3      \* timeline length up to which new edits are explored
MaxInFlight == 2     \* asynchronous completions outstanding at once
MaxImages == 1       \* image identifiers handed out
MaxTimeline == 4     \* as MaxHistory, for the history alone
MaxEdits == 5        \* as MaxHistory, for the clipboards alone
MaxCapObjects == 1   \* objects on the canvas while the timeline fills up
MaxPasteDepth == 1   \* pastes of a paste of a paste ... that are explored
MediaWidth == 400    \* natural width of the images that are added
MediaHeight == 200   \* natural height of the images that are added
TextWidth == 200     \* width fabric measures for a new text box
DragStep == 270      \* distance between two object:moving events
MaxScale == 2        \* largest scaleX a scaling gesture reaches
RotateStep == 180    \* angle between two object:rotating events
MaxMoves == 2        \* intermediate events of one gesture
MaxCropLoads == 2    \* decodes of cropped pixels in flight
MaxProjectReads == 1 \* project files being read at once
MaxMedia == 2        \* files of the media list
MaxSlides == 3       \* slides of the carousel
MaxDownloads == 1    \* files emitted before the last export starts

\* ------------------------------------------------------ program constants
HistoryCap == 50
PasteOffset == 20
CanvasWidth == 1080
CanvasHeight == 1080
CropMax == 300
Percent == 100       \* the zoom is kept in percent, as the zoom bar shows it
ZoomStep == 25       \* zoomStep
MinZoom == 10        \* smallest zoom of the zoom controls
MaxZoom == 500       \* largest zoom of the zoom controls
WheelGain == 5       \* a wheel deltaY of 5 is one percent of zoom
FitPadding == 200    \* padding calculateScale leaves around the canvas
ContentMargin == 320 \* what minWidth adds to the scaled canvas

VARIABLES
    objects,              \* fabricCanvasRef.current._objects: Seq of references
    heap,                 \* reference -> attributes of the fabric object
    activeObjects,        \* canvas.getActiveObjects(): set of references
    clipboardRef,         \* clipboardRef.current: Seq of cloned objects
    lastSystemImageHash,  \* lastSystemImageHash.current
    historyRef,           \* historyRef.current: Seq of snapshots
    historyIndexRef,      \* historyIndexRef.current (0-based, -1 when empty)
    isUndoRedoRef,        \* isUndoRedoRef.current
    pendingLoads,         \* loadFromJSON calls whose objects are being decoded
    pendingClones,        \* obj.clone calls of copyObjects not yet called back
    pasteOps,             \* pasteObjects calls with clone callbacks outstanding
    imageLoads,           \* addImageToCanvas decodes in flight
    systemImageLoads,     \* external (system clipboard) image decodes in flight
    nextImageId,          \* source of `img-${Date.now()}-${Math.random()}`
    activeTool,           \* App: activeTool, the prop read by the tool effect
    isCropMode,           \* isCropMode
    cropRect,             \* canvas._cropRect: a reference, NoRef when unset
    cropImage,            \* canvas._cropImage: a reference, NoRef when unset
    cropLoads,            \* applyCrop decodes in flight, with what they captured
    currentTransform,     \* fabric's canvas._currentTransform
    canvasSize,           \* App: canvasSize
    isCarouselMode,       \* App: isCarouselMode
    carouselSlides,       \* App: carouselSlides
    carouselSlideSize,    \* App: carouselSlideSize
    imageFilters,         \* App: imageFilters, __imageId -> Filter Descriptor
    projectReads,         \* project files picked in handleOpenProject, being read
    exportJob,            \* where a running handleExport stands
    downloads,            \* the files handleExport has emitted (link.click)
    currentZoom,          \* currentZoom (and scale), in percent
    viewport,             \* clientWidth / clientHeight of the scroll container
    scrollLeft,           \* scrollContainer.scrollLeft
    mousePositionRef,     \* mousePositionRef.current.x, from the container's left
    centerTimer,          \* a setTimeout(centerCanvas, 100) is armed
    isSpacePressed,       \* the space key is held
    isPanning,            \* a pan drag is in progress
    panStartRef,          \* <<[x, scrollLeft] at the pan's mousedown>>, or <<>>
    mediaItems,           \* App: mediaItems, the ids of the media list
    selectedMedia,        \* App: selectedMedia, an id of the list or NoId
    isEditing,            \* <<the text object in editing state and its
                          \*   _textBeforeEdit>>, or <<>>
    probe,                \* observer: an undo followed at once by a redo
    recent,               \* observer: the crop entry or Clear-All just before
    lastCopy,             \* observer: what the latest copy / cut cloned
    exportScenes          \* observer: the canvas when the export under way
                          \*   started and when it drew its first slide

\* The variables of the engine, and those with the observers.
engine == <<objects, heap, activeObjects, clipboardRef, lastSystemImageHash,
            historyRef, historyIndexRef, isUndoRedoRef,
            pendingLoads, pendingClones, pasteOps, imageLoads, systemImageLoads,
            nextImageId>>

\* The editor's state outside the engine: tool and crop session, gesture,
\* and App's canvas geometry, filter table and export.
editor == <<activeTool, isCropMode, cropRect, cropImage, cropLoads, currentTransform,
            canvasSize, isCarouselMode, carouselSlides, carouselSlideSize,
            imageFilters, projectReads, exportJob, downloads,
            currentZoom, viewport, scrollLeft, mousePositionRef, centerTimer,
            isSpacePressed, isPanning, panStartRef,
            mediaItems, selectedMedia, isEditing>>

vars == <<engine, editor, probe, recent, lastCopy, exportScenes>>

\* ---------------------------------------------------------------- helpers
Range(s) == {s[k] : k \in DOMAIN s}

Min(S) == CHOOSE x \in S : \A y \in S : x <= y
Max(S) == CHOOSE x \in S : \A y \in S : x >= y

\* All the orders in which the elements of a finite set can be visited.
Orders(S) ==
    {f \in [1..Cardinality(S) -> S] : \A a, b \in DOMAIN f : a # b => f[a] # f[b]}

\* A reference no live object uses (the allocator of `new`).
FreshRef(hp) == Min((1..(Cardinality(DOMAIN hp) + 1)) \ DOMAIN hp)

NoId == 0
NoRef == 0
EmptyHash == <<>>

\* ---------------------------------------------------------- fabric objects
\* The width and height props App hands to Canvas (App.tsx 474-475).
width == IF isCarouselMode THEN carouselSlideSize.width ELSE canvasSize.width
height == IF isCarouselMode THEN carouselSlideSize.height ELSE canvasSize.height

\* The text of a new Textbox (Canvas.tsx 1069) and what the model types
\* into one.
InitialText == "Double click to edit"
TypedTexts == {"Double click to edit", "Hello"}

\* The attributes of a fabric object the engine reads or writes: its type,
\* its custom __imageId (NoId when it has none), its source, its position,
\* width, horizontal scale and angle, its filter list and the selectable /
\* evented flags.
TextObject ==
    [kind |-> "textbox", id |-> NoId, src |-> "",
     left |-> width \div 2, top |-> height \div 2,
     width |-> TextWidth, scaleX |-> 1, angle |-> 0, filters |-> <<>>,
     text |-> InitialText,
     selectable |-> TRUE, evented |-> TRUE]

\* An image of the media size fits 80% of the canvas, so its scale is 1 and
\* it is centred; `src` is where its pixels come from, the URL of a media
\* item or the data URL read from a pasted blob.
ImageObject(id, src) ==
    [kind |-> "image", id |-> id, src |-> src,
     left |-> (width - MediaWidth) \div 2,
     top |-> (height - MediaHeight) \div 2,
     width |-> MediaWidth, scaleX |-> 1, angle |-> 0, filters |-> <<>>,
     text |-> "",
     selectable |-> TRUE, evented |-> TRUE]

\* fabric decodes an image asynchronously whenever it builds one from its
\* serialized form (fabric.Image.fromObject -> loadImage -> onload).
IsAsync(v) == v.kind = "image"

\* canvas.toJSON(['selectable', 'evented', '__imageId']): the objects in
\* canvas order, by value; object identity is not part of a snapshot.
toJSON(objs, hp) == [k \in 1..Len(objs) |-> hp[objs[k]]]

\* obj.clone(cb, ['__imageId']): toObject(['__imageId']) is taken at the call
\* and keeps type, position and __imageId; selectable and evented are not
\* among the serialized properties and come back as fabric's defaults.
clone(v) == [v EXCEPT !.selectable = TRUE, !.evented = TRUE]

Restrict(hp, S) == [r \in (DOMAIN hp) \cap S |-> hp[r]]

PastedRefs(ops) == UNION {Range(ops[k].pasted) : k \in DOMAIN ops}

\* What a crop session holds on to: canvas._cropRect, canvas._cropImage and
\* the rectangle and image captured by the applyCrop decodes in flight.
CropRefs(rect, image, loads) ==
    ({rect, image} \cup UNION {{c.rect, c.image} : c \in BagToSet(loads)}) \ {NoRef}

\* What the editor holds on to besides the canvas and the selection: the
\* crop session's objects and the target of the transform in progress.
Held == CropRefs(cropRect, cropImage, cropLoads) \cup currentTransform.target

\* The objects still referenced by the canvas, the selection, a pending
\* paste callback or the editor; everything else is garbage.
Collect(hp, objs, sel, ops) ==
    Restrict(hp, Range(objs) \cup sel \cup PastedRefs(ops) \cup Held)

\* ---------------------------------------------------------------- history
Hist == [h |-> historyRef, i |-> historyIndexRef]

\* Variants of saveState, each with one of its steps left out: the refusal
\* while a snapshot is replayed, the cursor's step back on eviction, the
\* slice up to the cursor.
saveStateDuringReplay(hist, json, flag) ==
    LET sliced == SubSeq(hist.h, 1, hist.i + 1)
        pushed == Append(sliced, json)
    IN IF Len(pushed) > HistoryCap
       THEN [h |-> Tail(pushed), i |-> (Len(pushed) - 1) - 1]
       ELSE [h |-> pushed, i |-> Len(pushed) - 1]

saveStateNoStepBack(hist, json, flag) ==
    IF flag THEN hist
    ELSE LET sliced == SubSeq(hist.h, 1, hist.i + 1)
             pushed == Append(sliced, json)
         IN IF Len(pushed) > HistoryCap
            THEN [h |-> Tail(pushed), i |-> Len(pushed) - 1]
            ELSE [h |-> pushed, i |-> Len(pushed) - 1]

saveStateNoSlice(hist, json, flag) ==
    IF flag THEN hist
    ELSE LET pushed == Append(hist.h, json)
         IN IF Len(pushed) > HistoryCap
            THEN [h |-> Tail(pushed), i |-> hist.i]
            ELSE [h |-> pushed, i |-> hist.i + 1]

\* saveState (Canvas.tsx 97-116) on the serialized canvas `json`.
saveState(hist, json, flag) ==
    IF flag THEN hist
    ELSE LET sliced == SubSeq(hist.h, 1, hist.i + 1)
             pushed == Append(sliced, json)
         IN IF Len(pushed) > HistoryCap
            THEN [h |-> Tail(pushed), i |-> (Len(pushed) - 1) - 1]
            ELSE [h |-> pushed, i |-> Len(pushed) - 1]

\* The object:added / object:removed / object:modified handlers call
\* saveState once per event: one handler that adds or removes several
\* objects saves the canvas after each of them.
RECURSIVE saveStates(_, _, _)
saveStates(hist, jsons, flag) ==
    IF jsons = <<>> THEN hist
    ELSE saveStates(saveState(hist, Head(jsons), flag), Tail(jsons), flag)

\* canvas.remove(obj) for each obj of `ord`, in order: an object that is on
\* the canvas is spliced out and fires object:removed.
RECURSIVE removeEach(_, _, _, _)
removeEach(ord, objs, hp, jsons) ==
    IF ord = <<>> THEN [objects |-> objs, jsons |-> jsons]
    ELSE IF Head(ord) \in Range(objs)
         THEN LET rest == SelectSeq(objs, LAMBDA x : x # Head(ord))
              IN removeEach(Tail(ord), rest, hp, Append(jsons, toJSON(rest, hp)))
         ELSE removeEach(Tail(ord), objs, hp, jsons)

\* canvas.insertAt(obj, index) for each enlivened object of a snapshot: a new
\* object is created and object:added fires.
RECURSIVE insertEach(_, _, _, _)
insertEach(state, objs, hp, jsons) ==
    IF state = <<>> THEN [objects |-> objs, heap |-> hp, jsons |-> jsons]
    ELSE LET r == FreshRef(hp)
             hp2 == hp @@ (r :> Head(state))
             objs2 == Append(objs, r)
         IN insertEach(Tail(state), objs2, hp2, Append(jsons, toJSON(objs2, hp2)))

\* A variant of loadFromJSON that does not clear the canvas first.
loadFromJSONNoClear(state, hist, flag) ==
    LET loaded == insertEach(state, objects, heap, <<>>)
    IN [objects |-> loaded.objects,
        heap |-> loaded.heap,
        hist |-> saveStates(hist, loaded.jsons, flag)]

\* The completion of canvas.loadFromJSON(state, callback): canvas.clear()
\* (discards the selection, removes every object), insertAt of every
\* enlivened object, then the callback, which clears isUndoRedoRef.
loadFromJSON(state, hist, flag) ==
    LET cleared == removeEach(objects, objects, heap, <<>>)
        kept == Restrict(heap, PastedRefs(pasteOps) \cup Held)
        loaded == insertEach(state, <<>>, kept, <<>>)
    IN [objects |-> loaded.objects,
        heap |-> loaded.heap,
        hist |-> saveStates(hist, cleared.jsons \o loaded.jsons, flag)]

InFlightPastes ==
    LET RECURSIVE Sum(_)
        Sum(ops) == IF ops = <<>> THEN 0
                    ELSE BagCardinality(Head(ops).pending) + Sum(Tail(ops))
    IN Sum(pasteOps)

InFlight ==
    BagCardinality(pendingLoads) + BagCardinality(pendingClones)
    + InFlightPastes + imageLoads + systemImageLoads

\* ----------------------------------------------------------------- viewport
\* The scroll container as the browser lays it out: these sizes make the
\* fit of calculateScale a whole number of percent.
Viewports ==
    {[width |-> 1000, height |-> 956], [width |-> 2000, height |-> 1550],
     [width |-> 1000, height |-> 254]}

\* calculateScale (Canvas.tsx 805-822), in percent.  The divisor of
\* scaleByWidth is the local containerWidth, the container's clientWidth.
calculateScale(vp, canvasHeight) ==
    LET availableHeight == vp.height - FitPadding
        availableWidth == vp.width - FitPadding
        scaleByHeight == (availableHeight * Percent) \div canvasHeight
        scaleByWidth == (availableWidth * Percent) \div vp.width
    IN Min({scaleByHeight, scaleByWidth, Percent})

\* The width of the scrolled content: minWidth of the scaled container
\* (Canvas.tsx 1518), and what the browser makes of an assignment to
\* scrollLeft: a value from 0 to scrollWidth - clientWidth.
scrollWidth(vp, canvasWidth, zoom) ==
    Max({vp.width, (canvasWidth * zoom) \div Percent + ContentMargin})

Scrolled(value, vp, canvasWidth, zoom) ==
    Max({0, Min({value, scrollWidth(vp, canvasWidth, zoom) - vp.width})})

\* centerCanvas (Canvas.tsx 1481-1494).
centerCanvas(vp, canvasWidth, zoom) ==
    Scrolled((scrollWidth(vp, canvasWidth, zoom) - vp.width) \div 2,
             vp, canvasWidth, zoom)

\* ------------------------------------------------------------------- Init
NoTransform == [action |-> "none", target |-> {}, moves |-> 0]
NoExport == [phase |-> "idle", slide |-> 0, slideWidth |-> 0, slides |-> 0,
             carousel |-> FALSE]

\* The editor's state at start: App.tsx 18-28, Canvas.tsx 75-85.
InitEditor ==
    /\ activeTool = "select"
    /\ isCropMode = FALSE
    /\ cropRect = NoRef
    /\ cropImage = NoRef
    /\ cropLoads = EmptyBag
    /\ currentTransform = NoTransform
    /\ canvasSize = [width |-> CanvasWidth, height |-> CanvasHeight]
    /\ isCarouselMode = FALSE
    /\ carouselSlides = 1
    /\ carouselSlideSize = [width |-> CanvasWidth, height |-> CanvasHeight]
    /\ imageFilters = << >>
    /\ projectReads = 0
    /\ exportJob = NoExport
    /\ downloads = <<>>
    /\ viewport = [width |-> 1000, height |-> 956]
    /\ currentZoom = calculateScale(viewport, CanvasHeight)
    /\ scrollLeft = centerCanvas(viewport, CanvasWidth, currentZoom)
    /\ mousePositionRef = 0
    /\ centerTimer = FALSE
    /\ isSpacePressed = FALSE
    /\ isPanning = FALSE
    /\ panStartRef = <<>>
    /\ mediaItems = {}
    /\ selectedMedia = NoId
    /\ isEditing = <<>>

\* A variant of Init without the initial saveState.
InitNoSnapshot ==
    /\ objects = <<>>
    /\ heap = << >>
    /\ activeObjects = {}
    /\ clipboardRef = <<>>
    /\ lastSystemImageHash = EmptyHash
    /\ historyRef = <<>>
    /\ historyIndexRef = -1
    /\ isUndoRedoRef = FALSE
    /\ pendingLoads = EmptyBag
    /\ pendingClones = EmptyBag
    /\ pasteOps = <<>>
    /\ imageLoads = 0
    /\ systemImageLoads = 0
    /\ nextImageId = 1
    /\ InitEditor
    /\ probe = [phase |-> "commits", scene |-> <<>>, cursor |-> 0]
    /\ recent = [op |-> "none", scene |-> <<>>, arg |-> <<>>]
    /\ lastCopy = [op |-> "none", clones |-> EmptyBag]
    /\ exportScenes = <<>>

\* The state once the canvas is initialised: the empty canvas has been saved
\* as the first snapshot (Canvas.tsx 629-632).
Init ==
    /\ objects = <<>>
    /\ heap = << >>
    /\ activeObjects = {}
    /\ clipboardRef = <<>>
    /\ lastSystemImageHash = EmptyHash
    /\ historyRef = << <<>> >>
    /\ historyIndexRef = 0
    /\ isUndoRedoRef = FALSE
    /\ pendingLoads = EmptyBag
    /\ pendingClones = EmptyBag
    /\ pasteOps = <<>>
    /\ imageLoads = 0
    /\ systemImageLoads = 0
    /\ nextImageId = 1
    /\ InitEditor
    /\ probe = [phase |-> "commits", scene |-> <<>>, cursor |-> 0]
    /\ recent = [op |-> "none", scene |-> <<>>, arg |-> <<>>]
    /\ lastCopy = [op |-> "none", clones |-> EmptyBag]
    /\ exportScenes = <<>>

\* -------------------------------------------------------- scene operations
\* addTextObject (Canvas.tsx 1066-1083), run when the text tool is chosen.
addTextObject ==
    LET r == FreshRef(heap)
        hp == heap @@ (r :> TextObject)
        objs == Append(objects, r)
        hist == saveState(Hist, toJSON(objs, hp), isUndoRedoRef)
    IN /\ objects' = objs
       /\ activeObjects' = {r}
       /\ heap' = Collect(hp, objs, {r}, pasteOps)
       /\ historyRef' = hist.h
       /\ historyIndexRef' = hist.i
       /\ UNCHANGED <<clipboardRef, lastSystemImageHash,
                      isUndoRedoRef, pendingLoads, pendingClones, pasteOps,
                      imageLoads, systemImageLoads, nextImageId>>

\* addImageToCanvas (Canvas.tsx 930-1064): the decode of the media item starts.
addImageToCanvas ==
    /\ imageLoads' = imageLoads + 1
    /\ UNCHANGED <<objects, heap, activeObjects, clipboardRef,
                   lastSystemImageHash, historyRef, historyIndexRef, isUndoRedoRef,
                   pendingLoads, pendingClones, pasteOps, systemImageLoads,
                   nextImageId>>

\* canvas.add(img); canvas.setActiveObject(img) of a freshly decoded image
\* that is given a new __imageId.
AddNewImage(src) ==
    LET r == FreshRef(heap)
        hp == heap @@ (r :> ImageObject(nextImageId, src))
        objs == Append(objects, r)
        hist == saveState(Hist, toJSON(objs, hp), isUndoRedoRef)
    IN /\ objects' = objs
       /\ activeObjects' = {r}
       /\ heap' = Collect(hp, objs, {r}, pasteOps)
       /\ historyRef' = hist.h
       /\ historyIndexRef' = hist.i
       /\ nextImageId' = nextImageId + 1

\* imgElement.onload / onerror and the fabric.Image.fromURL callback of
\* addImageToCanvas (Canvas.tsx 978-1060).
imageDecoded(ok) ==
    /\ imageLoads > 0
    /\ imageLoads' = imageLoads - 1
    /\ IF ok THEN AddNewImage("media")
       ELSE UNCHANGED <<objects, heap, activeObjects, historyRef, historyIndexRef,
                        nextImageId>>
    /\ UNCHANGED <<clipboardRef, lastSystemImageHash,
                   isUndoRedoRef, pendingLoads, pendingClones, pasteOps,
                   systemImageLoads>>

\* The pointer selection of fabric (selection: true, Canvas.tsx 611): a click,
\* shift-click or marquee makes a non-empty set of selectable objects active.
selectObjects(S) ==
    /\ S # {}
    /\ S \subseteq Range(objects)
    /\ \A r \in S : heap[r].selectable /\ heap[r].evented
    /\ activeObjects' = S
    /\ heap' = Collect(heap, objects, S, pasteOps)
    /\ UNCHANGED <<objects, clipboardRef, lastSystemImageHash,
                   historyRef, historyIndexRef, isUndoRedoRef, pendingLoads,
                   pendingClones, pasteOps, imageLoads, systemImageLoads,
                   nextImageId>>

\* deleteSelectedObjects (Canvas.tsx 1085-1098).
deleteSelectedObjects ==
    \/ /\ activeObjects = {}
       /\ UNCHANGED engine
    \/ /\ activeObjects # {}
       /\ \E ord \in Orders(activeObjects) :
            LET removed == removeEach(ord, objects, heap, <<>>)
                hist == saveStates(Hist, removed.jsons, isUndoRedoRef)
            IN /\ objects' = removed.objects
               /\ activeObjects' = {}
               /\ heap' = Collect(heap, removed.objects, {}, pasteOps)
               /\ historyRef' = hist.h
               /\ historyIndexRef' = hist.i
       /\ UNCHANGED <<clipboardRef, lastSystemImageHash,
                      isUndoRedoRef, pendingLoads, pendingClones, pasteOps,
                      imageLoads, systemImageLoads, nextImageId>>

\* ---------------------------------------------------------------- stacking
IndexOf(objs, r) == CHOOSE k \in DOMAIN objs : objs[k] = r

\* removeFromArray(_objects, r); _objects.splice(k, 0, r), with k from 1.
MoveTo(objs, r, k) ==
    LET rest == SelectSeq(objs, LAMBDA x : x # r)
    IN SubSeq(rest, 1, k - 1) \o <<r>> \o SubSeq(rest, k, Len(rest))

Reverse(s) == [k \in 1..Len(s) |-> s[Len(s) + 1 - k]]

\* fabric's canvas.sendBackwards(active): each object of the selection, in
\* the selection's order, goes one place down unless it is as low as the
\* ones moved before it let it go.
RECURSIVE sendBackwards(_, _, _)
sendBackwards(ord, objs, objsMoved) ==
    IF ord = <<>> THEN objs
    ELSE LET idx == IndexOf(objs, Head(ord))
         IN sendBackwards(Tail(ord),
                          IF idx - 1 > objsMoved
                          THEN MoveTo(objs, Head(ord), idx - 1) ELSE objs,
                          objsMoved + 1)

\* fabric's canvas.bringForward(active): the same upwards, from the last
\* object of the selection to the first (`rev` is the selection reversed).
RECURSIVE bringForward(_, _, _)
bringForward(rev, objs, objsMoved) ==
    IF rev = <<>> THEN objs
    ELSE LET idx == IndexOf(objs, Head(rev))
         IN bringForward(Tail(rev),
                         IF idx < Len(objs) - objsMoved
                         THEN MoveTo(objs, Head(rev), idx + 1) ELSE objs,
                         objsMoved + 1)

\* fabric's canvas.sendToBack(active) and canvas.bringToFront(active).
sendToBack(ord, objs) == ord \o SelectSeq(objs, LAMBDA x : x \notin Range(ord))
bringToFront(ord, objs) == SelectSeq(objs, LAMBDA x : x \notin Range(ord)) \o ord

ReorderKeys == {"[", "]", "{", "}"}

\* handleKeyDown for the bracket keys (Canvas.tsx 751-779): the active
\* object, or each object of the active selection, changes place; fabric
\* fires no event for it.
reorderKeyDown(key) ==
    \/ /\ activeObjects = {}
       /\ UNCHANGED engine
    \/ /\ activeObjects # {}
       /\ \E ord \in Orders(activeObjects) :
            objects' = CASE key = "[" -> sendBackwards(ord, objects, 0)
                         [] key = "]" -> bringForward(Reverse(ord), objects, 0)
                         [] key = "{" -> sendToBack(ord, objects)
                         [] key = "}" -> bringToFront(ord, objects)
       /\ UNCHANGED <<heap, activeObjects, clipboardRef, lastSystemImageHash,
                      historyRef, historyIndexRef, isUndoRedoRef, pendingLoads,
                      pendingClones, pasteOps, imageLoads, systemImageLoads,
                      nextImageId>>

\* ------------------------------------------------------------- undo / redo
\* historyIndexRef has been moved to `idx`; isUndoRedoRef is set and
\* loadFromJSON(historyRef[idx]) is called.  A snapshot without images is
\* enlivened synchronously, so the load completes inside the handler.
replay(idx) ==
    LET state == historyRef[idx + 1]
    IN IF \E k \in DOMAIN state : IsAsync(state[k])
       THEN /\ historyIndexRef' = idx
            /\ isUndoRedoRef' = TRUE
            /\ pendingLoads' = pendingLoads (+) SetToBag({state})
            /\ UNCHANGED <<objects, heap, activeObjects, historyRef>>
       ELSE LET done == loadFromJSON(state, [h |-> historyRef, i |-> idx], TRUE)
            IN /\ objects' = done.objects
               /\ heap' = done.heap
               /\ activeObjects' = {}
               /\ historyRef' = done.hist.h
               /\ historyIndexRef' = done.hist.i
               /\ isUndoRedoRef' = FALSE
               /\ UNCHANGED pendingLoads

\* A variant of handleUndo that sets the replay flag before it looks at
\* the cursor.
handleUndoFlagFirst ==
    \/ /\ historyIndexRef <= 0
       /\ isUndoRedoRef' = TRUE
       /\ UNCHANGED <<objects, heap, activeObjects, historyRef, historyIndexRef,
                      clipboardRef, lastSystemImageHash, pendingLoads,
                      pendingClones, pasteOps, imageLoads, systemImageLoads,
                      nextImageId>>
    \/ /\ historyIndexRef > 0
       /\ replay(historyIndexRef - 1)
       /\ UNCHANGED <<clipboardRef, lastSystemImageHash,
                      pendingClones, pasteOps, imageLoads, systemImageLoads,
                      nextImageId>>

\* handleUndo (Canvas.tsx 119-134).
handleUndo ==
    \/ /\ historyIndexRef <= 0
       /\ UNCHANGED engine
    \/ /\ historyIndexRef > 0
       /\ replay(historyIndexRef - 1)
       /\ UNCHANGED <<clipboardRef, lastSystemImageHash,
                      pendingClones, pasteOps, imageLoads, systemImageLoads,
                      nextImageId>>

\* handleRedo (Canvas.tsx 137-152).
handleRedo ==
    \/ /\ historyIndexRef >= Len(historyRef) - 1
       /\ UNCHANGED engine
    \/ /\ historyIndexRef < Len(historyRef) - 1
       /\ replay(historyIndexRef + 1)
       /\ UNCHANGED <<clipboardRef, lastSystemImageHash,
                      pendingClones, pasteOps, imageLoads, systemImageLoads,
                      nextImageId>>

\* The objects of a snapshot handed to loadFromJSON have been decoded: the
\* canvas is cleared and refilled and the callback of handleUndo / handleRedo
\* runs (Canvas.tsx 129-133, 147-151).
loadCompleted(state) ==
    /\ BagIn(state, pendingLoads)
    /\ LET done == loadFromJSON(state, Hist, isUndoRedoRef)
       IN /\ objects' = done.objects
          /\ heap' = done.heap
          /\ activeObjects' = {}
          /\ historyRef' = done.hist.h
          /\ historyIndexRef' = done.hist.i
    /\ isUndoRedoRef' = FALSE
    /\ pendingLoads' = pendingLoads (-) SetToBag({state})
    /\ UNCHANGED <<clipboardRef, lastSystemImageHash,
                   pendingClones, pasteOps, imageLoads, systemImageLoads,
                   nextImageId>>

\* --------------------------------------------------------------- clipboard
\* activeObjects.forEach(obj => obj.clone(cloned => clipboardRef.current.push(
\* cloned))) of copyObjects (Canvas.tsx 164-168): the clone of an object that
\* needs no decode is pushed at once, the clone of an image when its decode
\* completes.
RECURSIVE cloneEach(_, _, _)
cloneEach(ord, clip, pending) ==
    IF ord = <<>> THEN [clipboard |-> clip, pending |-> pending]
    ELSE LET cloned == clone(heap[Head(ord)])
         IN IF IsAsync(cloned)
            THEN cloneEach(Tail(ord), clip, pending (+) SetToBag({cloned}))
            ELSE cloneEach(Tail(ord), Append(clip, cloned), pending)

\* copyObjects (Canvas.tsx 155-174).
copyObjects ==
    \/ /\ activeObjects = {}
       /\ UNCHANGED engine
    \/ /\ activeObjects # {}
       /\ \E ord \in Orders(activeObjects) :
            LET copied == cloneEach(ord, <<>>, pendingClones)
            IN /\ clipboardRef' = copied.clipboard
               /\ pendingClones' = copied.pending
       /\ UNCHANGED <<objects, heap, activeObjects, lastSystemImageHash, historyRef,
                      historyIndexRef, isUndoRedoRef, pendingLoads, pasteOps,
                      imageLoads, systemImageLoads, nextImageId>>

\* The decode behind a clone of copyObjects completes: the callback pushes
\* the clone onto whatever clipboardRef.current is by then (Canvas.tsx 165-167).
cloneCompleted(cloned) ==
    /\ BagIn(cloned, pendingClones)
    /\ pendingClones' = pendingClones (-) SetToBag({cloned})
    /\ clipboardRef' = Append(clipboardRef, cloned)
    /\ UNCHANGED <<objects, heap, activeObjects,
                   lastSystemImageHash, historyRef, historyIndexRef, isUndoRedoRef,
                   pendingLoads, pasteOps, imageLoads, systemImageLoads, nextImageId>>

\* cutObjects (Canvas.tsx 177-196): copyObjects(), then canvas.remove of each
\* active object and discardActiveObject.
cutObjects ==
    \/ /\ activeObjects = {}
       /\ UNCHANGED engine
    \/ /\ activeObjects # {}
       /\ \E ord \in Orders(activeObjects) :
            LET copied == cloneEach(ord, <<>>, pendingClones)
                removed == removeEach(ord, objects, heap, <<>>)
                hist == saveStates(Hist, removed.jsons, isUndoRedoRef)
            IN /\ clipboardRef' = copied.clipboard
               /\ pendingClones' = copied.pending
               /\ objects' = removed.objects
               /\ heap' = Collect(heap, removed.objects, {}, pasteOps)
               /\ historyRef' = hist.h
               /\ historyIndexRef' = hist.i
       /\ activeObjects' = {}
       /\ UNCHANGED <<lastSystemImageHash, isUndoRedoRef, pendingLoads, pasteOps,
                      imageLoads, systemImageLoads, nextImageId>>

\* A variant of pastePosition that moves the clone to the right only.
pastePositionLeftOnly(cloned) ==
    [cloned EXCEPT !.left = @ + PasteOffset, !.evented = TRUE]

\* The position pasteObjects gives a clone (Canvas.tsx 215-219).
pastePosition(cloned) ==
    [cloned EXCEPT !.left = @ + PasteOffset, !.top = @ + PasteOffset,
                   !.evented = TRUE]

\* The clone callback of pasteObjects (Canvas.tsx 213-237) on the running
\* state st = [objects, heap, hist, active, pasted]: the clone is offset,
\* added (object:added saves the state) and pushed on pastedObjects; when
\* pastedObjects is as long as the clipboard is now, it becomes the selection.
pasteCallback(st, cloned, clipLen) ==
    LET r == FreshRef(st.heap)
        hp == st.heap @@ (r :> pastePosition(cloned))
        objs == Append(st.objects, r)
        pasted == Append(st.pasted, r)
    IN [objects |-> objs,
        heap |-> hp,
        hist |-> saveState(st.hist, toJSON(objs, hp), isUndoRedoRef),
        active |-> IF Len(pasted) = clipLen THEN Range(pasted) ELSE st.active,
        pasted |-> pasted]

\* clipboardRef.current.forEach(obj => obj.clone(callback)) of pasteObjects.
RECURSIVE pasteEach(_, _, _)
pasteEach(entries, st, pending) ==
    IF entries = <<>> THEN [st |-> st, pending |-> pending]
    ELSE LET cloned == clone(Head(entries))
         IN IF IsAsync(cloned)
            THEN pasteEach(Tail(entries), st, pending (+) SetToBag({cloned}))
            ELSE pasteEach(Tail(entries),
                           pasteCallback(st, cloned, Len(clipboardRef)), pending)

\* pasteObjects (Canvas.tsx 199-239) as a state change of everything but the
\* clipboard and the system-paste variables.
pasteInternal ==
    LET start == [objects |-> objects, heap |-> heap, hist |-> Hist,
                  active |-> {}, pasted |-> <<>>]
        done == pasteEach(clipboardRef, start, EmptyBag)
        ops == IF done.pending = EmptyBag THEN pasteOps
               ELSE Append(pasteOps, [pasted |-> done.st.pasted,
                                      pending |-> done.pending])
    IN /\ objects' = done.st.objects
       /\ activeObjects' = done.st.active
       /\ pasteOps' = ops
       /\ heap' = Collect(done.st.heap, done.st.objects, done.st.active, ops)
       /\ historyRef' = done.st.hist.h
       /\ historyIndexRef' = done.st.hist.i

pasteObjects ==
    \/ /\ Len(clipboardRef) = 0
       /\ UNCHANGED engine
    \/ /\ Len(clipboardRef) > 0
       /\ pasteInternal
       /\ UNCHANGED <<clipboardRef, lastSystemImageHash,
                      isUndoRedoRef, pendingLoads, pendingClones, imageLoads,
                      systemImageLoads, nextImageId>>

RemoveAt(s, k) == SubSeq(s, 1, k - 1) \o SubSeq(s, k + 1, Len(s))

\* The decode behind a clone of pasteObjects call number k completes and its
\* callback runs.
pasteCloneCompleted(k, cloned) ==
    /\ k \in DOMAIN pasteOps
    /\ BagIn(cloned, pasteOps[k].pending)
    /\ LET op == pasteOps[k]
           st == pasteCallback([objects |-> objects, heap |-> heap, hist |-> Hist,
                                active |-> activeObjects, pasted |-> op.pasted],
                               cloned, Len(clipboardRef))
           left == op.pending (-) SetToBag({cloned})
           ops == IF left = EmptyBag THEN RemoveAt(pasteOps, k)
                  ELSE [pasteOps EXCEPT ![k] = [pasted |-> st.pasted, pending |-> left]]
       IN /\ objects' = st.objects
          /\ activeObjects' = st.active
          /\ pasteOps' = ops
          /\ heap' = Collect(st.heap, st.objects, st.active, ops)
          /\ historyRef' = st.hist.h
          /\ historyIndexRef' = st.hist.i
    /\ UNCHANGED <<clipboardRef, lastSystemImageHash,
                   isUndoRedoRef, pendingLoads, pendingClones, imageLoads,
                   systemImageLoads, nextImageId>>

\* ------------------------------------------------------- system clipboard
\* What a paste event carries: no clipboardData items at all, items without
\* an image file, or an image blob of some byte size and media type.
NoItems == [items |-> FALSE, image |-> FALSE, size |-> 0, type |-> ""]
NoImage == [items |-> TRUE, image |-> FALSE, size |-> 0, type |-> ""]
ImageBlob(size, type) == [items |-> TRUE, image |-> TRUE, size |-> size, type |-> type]

PasteEvents ==
    {NoItems, NoImage, ImageBlob(10, "image/png"), ImageBlob(20, "image/png")}

\* `${blob.size}-${blob.type}` (Canvas.tsx 279).
systemImageHashOf(e) == <<e.size, "-", e.type>>

\* A variant of hasNewSystemImage that takes every image for a new one.
hasNewSystemImageAlways(e) == e.items /\ e.image

\* hasNewSystemImage (Canvas.tsx 287).
hasNewSystemImage(e) ==
    e.items /\ e.image /\ systemImageHashOf(e) # lastSystemImageHash

\* pasteFromSystemClipboard (Canvas.tsx 242-444).
pasteFromSystemClipboard(e) ==
    IF hasNewSystemImage(e)
    THEN /\ lastSystemImageHash' = systemImageHashOf(e)
         /\ clipboardRef' = <<>>
         /\ systemImageLoads' = systemImageLoads + 1
         /\ UNCHANGED <<objects, heap, activeObjects, historyRef, historyIndexRef,
                        isUndoRedoRef, pendingLoads, pendingClones, pasteOps,
                        imageLoads, nextImageId>>
    ELSE IF Len(clipboardRef) > 0
    THEN /\ pasteInternal
         /\ UNCHANGED <<clipboardRef, lastSystemImageHash,
                        isUndoRedoRef, pendingLoads, pendingClones, imageLoads,
                        systemImageLoads, nextImageId>>
    ELSE UNCHANGED engine

\* reader.onload and the fabric.Image.fromURL callback of the external paste
\* (Canvas.tsx 311-431); nothing is inserted when the read or decode fails.
systemImageDecoded(ok) ==
    /\ systemImageLoads > 0
    /\ systemImageLoads' = systemImageLoads - 1
    /\ IF ok THEN AddNewImage("clipboard")
       ELSE UNCHANGED <<objects, heap, activeObjects, historyRef, historyIndexRef,
                        nextImageId>>
    /\ UNCHANGED <<clipboardRef, lastSystemImageHash,
                   isUndoRedoRef, pendingLoads, pendingClones, pasteOps,
                   imageLoads>>

\* ------------------------------------------------------------ next state
\* How many paste offsets away from where it was created an object lies.
PasteDepth(v) ==
    (v.left - (IF v.kind = "image" THEN ImageObject(NoId, "").left ELSE TextObject.left))
        \div PasteOffset

\* What a paste would put on the canvas stays within the explored range.
PasteInBounds ==
    /\ Len(objects) + Len(clipboardRef) <= MaxObjects
    /\ \A k \in DOMAIN clipboardRef : PasteDepth(clipboardRef[k]) < MaxPasteDepth

\* ----------------------------------------------------------------- gestures
\* Groups of variables a handler leaves alone.
clipboards == <<clipboardRef, lastSystemImageHash>>
decodes == <<pendingLoads, pendingClones, pasteOps, imageLoads, systemImageLoads,
             nextImageId>>
cropSession == <<isCropMode, cropRect, cropImage, cropLoads>>
appState == <<canvasSize, isCarouselMode, carouselSlides, carouselSlideSize,
              imageFilters, projectReads>>
exporter == <<exportJob, downloads>>
pan == <<isSpacePressed, isPanning, panStartRef>>
view == <<currentZoom, viewport, scrollLeft, mousePositionRef, centerTimer, pan>>
media == <<mediaItems, selectedMedia>>

\* What fabric has done to an object of the target when it fires
\* object:moving, object:scaling or object:rotating.
Transformed(v, action) ==
    CASE action = "moving" -> [v EXCEPT !.left = @ + DragStep]
      [] action = "scaling" -> [v EXCEPT !.scaleX = @ + 1]
      [] action = "rotating" -> [v EXCEPT !.angle = (@ + RotateStep) % 360]

\* A variant of throttledRender that saves the canvas as well.
throttledRenderSaves(hist, json, flag) == saveState(hist, json, flag)

\* throttledRender (Canvas.tsx 638-657), all that the handlers of
\* object:moving, object:scaling and object:rotating (659-669) call: a
\* render is scheduled within 16 ms and the timeline stays as it is.
throttledRender(hist, json, flag) == hist

\* An object:moving / object:scaling / object:rotating event.  The first of
\* a gesture makes the active objects its target; fabric has transformed
\* the target before it calls the handler.
objectMoving(action) ==
    LET starting == currentTransform.action = "none"
        target == IF starting THEN activeObjects ELSE currentTransform.target
        hp == [r \in DOMAIN heap |->
                  IF r \in target THEN Transformed(heap[r], action) ELSE heap[r]]
        hist == throttledRender(Hist, toJSON(objects, hp), isUndoRedoRef)
    IN /\ IF starting
          THEN /\ activeObjects # {}
               /\ activeObjects \subseteq Range(objects)
               /\ \A r \in activeObjects : heap[r].selectable /\ heap[r].evented
          ELSE action = currentTransform.action
       /\ heap' = hp
       /\ currentTransform' = [action |-> action, target |-> target,
                               moves |-> currentTransform.moves + 1]
       /\ historyRef' = hist.h
       /\ historyIndexRef' = hist.i
       /\ UNCHANGED <<objects, activeObjects, isUndoRedoRef, clipboards, decodes,
                      activeTool, cropSession, appState, exporter, view, media, isEditing>>

\* The object:modified event (Canvas.tsx 663-669), which fabric fires when
\* the gesture is released, and without a gesture when the edit of a text
\* box ends: the pending render is done and the canvas is saved.
objectModified ==
    LET target == IF currentTransform.action = "none"
                  THEN activeObjects ELSE currentTransform.target
        hist == saveState(Hist, toJSON(objects, heap), isUndoRedoRef)
    IN /\ target # {}
       /\ target \subseteq DOMAIN heap
       /\ currentTransform' = NoTransform
       /\ heap' = Restrict(heap, Range(objects) \cup activeObjects \cup PastedRefs(pasteOps)
                                 \cup CropRefs(cropRect, cropImage, cropLoads))
       /\ historyRef' = hist.h
       /\ historyIndexRef' = hist.i
       /\ UNCHANGED <<objects, activeObjects, isUndoRedoRef, clipboards, decodes,
                      activeTool, cropSession, appState, exporter, view, media, isEditing>>

\* --------------------------------------------------------------- crop mode
\* The overlay rectangle of enableCropMode (Canvas.tsx 1115-1136): 60% of the
\* image's bounding box and at most CropMax a side, centred on the image.
CropRectObject(img) ==
    LET boundsWidth == img.width * img.scaleX
        cropWidth == Min({(boundsWidth * 6) \div 10, CropMax})
        cropHeight == Min({(MediaHeight * 6) \div 10, CropMax})
    IN [kind |-> "rect", id |-> NoId, src |-> "",
        left |-> img.left + (boundsWidth - cropWidth) \div 2,
        top |-> img.top + (MediaHeight - cropHeight) \div 2,
        width |-> cropWidth, scaleX |-> 1, angle |-> 0, filters |-> <<>>,
        text |-> "",
        selectable |-> TRUE, evented |-> TRUE]

\* canvas.getActiveObject() is an object enableCropMode accepts: one active
\* object of type image or group.  Several active objects are one
\* ActiveSelection, whose type is neither.
CropTarget ==
    /\ Cardinality(activeObjects) = 1
    /\ \A a \in activeObjects : heap[a].kind \in {"image", "group"}

\* enableCropMode (Canvas.tsx 1100-1145).
enableCropMode ==
    IF ~CropTarget
    THEN UNCHANGED <<engine, cropRect, cropImage>>
    ELSE LET a == CHOOSE r \in activeObjects : TRUE
             off == [heap EXCEPT ![a].selectable = FALSE, ![a].evented = FALSE]
             r == FreshRef(off)
             hp == off @@ (r :> CropRectObject(heap[a]))
             objs == Append(objects, r)
             hist == saveState(Hist, toJSON(objs, hp), isUndoRedoRef)
         IN /\ objects' = objs
            /\ activeObjects' = {r}
            /\ cropRect' = r
            /\ cropImage' = a
            /\ heap' = Restrict(hp, Range(objs) \cup {r, a} \cup PastedRefs(pasteOps)
                                    \cup CropRefs(NoRef, NoRef, cropLoads)
                                    \cup currentTransform.target)
            /\ historyRef' = hist.h
            /\ historyIndexRef' = hist.i
            /\ UNCHANGED <<isUndoRedoRef, clipboards, decodes>>

\* handleToolChange (App.tsx 214-242) for a tool of the toolbar, and the
\* effect on activeTool of Canvas (Canvas.tsx 875-905), which runs when the
\* tool has changed.
handleToolChange(tool) ==
    IF tool = activeTool
    THEN UNCHANGED <<engine, editor>>
    ELSE /\ activeTool' = tool
         /\ CASE tool = "text" ->
                   addTextObject /\ isCropMode' = FALSE /\ UNCHANGED <<cropRect, cropImage>>
              [] tool = "crop" ->
                   isCropMode' = TRUE /\ enableCropMode
              [] OTHER ->
                   isCropMode' = FALSE /\ UNCHANGED <<engine, cropRect, cropImage>>
         /\ UNCHANGED <<cropLoads, currentTransform, appState, exporter, view, media, isEditing>>

\* applyCrop (Canvas.tsx 1147-1193), the Apply button shown in crop mode: the
\* crop bounds are read and the decode of the cropped pixels starts.
applyCrop ==
    /\ isCropMode
    /\ IF cropRect = NoRef \/ cropImage = NoRef
       THEN UNCHANGED cropLoads
       ELSE cropLoads' = cropLoads (+) SetToBag({[rect |-> cropRect, image |-> cropImage,
                                                 left |-> heap[cropRect].left,
                                                 top |-> heap[cropRect].top,
                                                 width |-> heap[cropRect].width
                                                           * heap[cropRect].scaleX]})
    /\ UNCHANGED <<engine, activeTool, isCropMode, cropRect, cropImage,
                   currentTransform, appState, exporter, view, media, isEditing>>

\* The image applyCrop builds from the cropped pixels: a new image without
\* __imageId, placed on the crop bounds.
CroppedImage(c) ==
    [kind |-> "image", id |-> NoId, src |-> "crop",
     left |-> c.left, top |-> c.top,
     width |-> c.width, scaleX |-> 1, angle |-> 0, filters |-> <<>>,
     text |-> "",
     selectable |-> TRUE, evented |-> TRUE]

\* The callback of fabric.Image.fromURL in applyCrop (Canvas.tsx 1194-1223).
cropDecoded(c) ==
    LET removed == removeEach(<<c.image, c.rect>>, objects, heap, <<>>)
        r == FreshRef(heap)
        hp == heap @@ (r :> CroppedImage(c))
        objs == Append(removed.objects, r)
        hist == saveStates(Hist, Append(removed.jsons, toJSON(objs, hp)), isUndoRedoRef)
        loads == cropLoads (-) SetToBag({c})
    IN /\ BagIn(c, cropLoads)
       /\ cropLoads' = loads
       /\ objects' = objs
       /\ activeObjects' = {r}
       /\ cropRect' = NoRef
       /\ cropImage' = NoRef
       /\ isCropMode' = FALSE
       /\ activeTool' = "select"
       /\ heap' = Restrict(hp, Range(objs) \cup PastedRefs(pasteOps)
                               \cup CropRefs(NoRef, NoRef, loads)
                               \cup currentTransform.target)
       /\ historyRef' = hist.h
       /\ historyIndexRef' = hist.i
       /\ UNCHANGED <<isUndoRedoRef, clipboards, decodes,
                      currentTransform, appState, exporter, view, media, isEditing>>

\* A variant of reenable that makes the image selectable only.
reenableSelectableOnly(v) == [v EXCEPT !.selectable = TRUE]

\* originalImage.set({ selectable: true, evented: true }) of cancelCrop
\* (Canvas.tsx 1238-1243).
reenable(v) == [v EXCEPT !.selectable = TRUE, !.evented = TRUE]

\* cancelCrop (Canvas.tsx 1227-1252), the Cancel button shown in crop mode.
cancelCrop ==
    LET removed == IF cropRect = NoRef
                   THEN [objects |-> objects, jsons |-> <<>>]
                   ELSE removeEach(<<cropRect>>, objects, heap, <<>>)
        hist == saveStates(Hist, removed.jsons, isUndoRedoRef)
        hp == IF cropImage = NoRef THEN heap
              ELSE [heap EXCEPT ![cropImage] = reenable(@)]
    IN /\ isCropMode
       /\ objects' = removed.objects
       /\ cropRect' = NoRef
       /\ cropImage' = NoRef
       /\ isCropMode' = FALSE
       /\ heap' = Restrict(hp, Range(removed.objects) \cup activeObjects
                               \cup PastedRefs(pasteOps)
                               \cup CropRefs(NoRef, NoRef, cropLoads)
                               \cup currentTransform.target)
       /\ historyRef' = hist.h
       /\ historyIndexRef' = hist.i
       /\ UNCHANGED <<activeObjects, isUndoRedoRef, clipboards, decodes, activeTool,
                      cropLoads, currentTransform, appState, exporter, view, media, isEditing>>

\* clearAllObjects (Canvas.tsx 87-94): canvas.clear() discards the selection
\* and removes every object.
clearAllObjects ==
    LET cleared == removeEach(objects, objects, heap, <<>>)
        hist == saveStates(Hist, cleared.jsons, isUndoRedoRef)
    IN /\ objects' = <<>>
       /\ activeObjects' = {}
       /\ heap' = Collect(heap, <<>>, {}, pasteOps)
       /\ historyRef' = hist.h
       /\ historyIndexRef' = hist.i
       /\ UNCHANGED <<isUndoRedoRef, clipboards, decodes, editor>>

\* discardActiveObject of the imperative handle (Canvas.tsx 589-594), and
\* fabric's own on a click outside every object.
discardActiveObject ==
    /\ activeObjects' = {}
    /\ heap' = Collect(heap, objects, {}, pasteOps)
    /\ UNCHANGED <<objects, historyRef, historyIndexRef, isUndoRedoRef,
                   clipboards, decodes, editor>>

\* ------------------------------------------------------------------ filters
\* Filter Descriptors (FilterControls.tsx 3-12): brightness, contrast,
\* saturation and blur in hundredths, hue in degrees, three booleans.  The
\* values are among those of the presets (FilterControls.tsx 21-29), and a blur.
Descriptors ==
    [brightness : {0, 30}, contrast : {0, 10}, saturation : {-20, 0},
     hue : {-20, 0}, blur : {0, 50},
     grayscale : BOOLEAN, sepia : BOOLEAN, invert : BOOLEAN]

\* new fabric.Image.filters.<type>(...): the operator and its parameter as a
\* fraction; HueRotation gets filters.hue / 360.
Operator(type, num, den) == [type |-> type, param |-> <<num, den>>]
Switch(type) == [type |-> type, param |-> <<>>]

push(list, cond, op) == IF cond THEN Append(list, op) ELSE list

\* A variant of pushFilters that pushes Sepia before Grayscale.
pushFiltersSepiaFirst(list, filters) ==
    LET b == push(list, filters.brightness # 0, Operator("Brightness", filters.brightness, 100))
        c == push(b, filters.contrast # 0, Operator("Contrast", filters.contrast, 100))
        s == push(c, filters.saturation # 0, Operator("Saturation", filters.saturation, 100))
        h == push(s, filters.hue # 0, Operator("HueRotation", filters.hue, 360))
        l == push(h, filters.blur > 0, Operator("Blur", filters.blur, 100))
        e == push(l, filters.sepia, Switch("Sepia"))
        g == push(e, filters.grayscale, Switch("Grayscale"))
    IN push(g, filters.invert, Switch("Invert"))

\* The pushes of applyFilters (Canvas.tsx 522-572) onto img.filters.
pushFilters(list, filters) ==
    LET b == push(list, filters.brightness # 0, Operator("Brightness", filters.brightness, 100))
        c == push(b, filters.contrast # 0, Operator("Contrast", filters.contrast, 100))
        s == push(c, filters.saturation # 0, Operator("Saturation", filters.saturation, 100))
        h == push(s, filters.hue # 0, Operator("HueRotation", filters.hue, 360))
        l == push(h, filters.blur > 0, Operator("Blur", filters.blur, 100))
        g == push(l, filters.grayscale, Switch("Grayscale"))
        e == push(g, filters.sepia, Switch("Sepia"))
    IN push(e, filters.invert, Switch("Invert"))

\* A variant of clearFilters that keeps the list.
keepFilters(list) == list

\* img.filters = [] (Canvas.tsx 520).
clearFilters(list) == <<>>

\* A variant of FilterTarget that takes one active object of any type.
FilterTargetAnyType == Cardinality(activeObjects) = 1

\* canvas.getActiveObject() is an image: one active object of type image.
FilterTarget ==
    /\ Cardinality(activeObjects) = 1
    /\ \A a \in activeObjects : heap[a].kind = "image"

\* The objects after applyFilters (Canvas.tsx 500-584).
filtered(filters) ==
    IF ~FilterTarget
    THEN heap
    ELSE LET img == CHOOSE a \in activeObjects : TRUE
         IN [heap EXCEPT ![img].filters = pushFilters(clearFilters(@), filters)]

\* applyFilters (Canvas.tsx 500-584).
applyFilters(filters) ==
    /\ heap' = filtered(filters)
    /\ UNCHANGED <<objects, activeObjects, historyRef, historyIndexRef, isUndoRedoRef,
                   clipboards, decodes, editor>>

\* App's hasSelectedImage and currentImageId as the selection handlers of
\* the canvas left them (Canvas.tsx 682-735, App.tsx 485-496): whether an
\* image is among the active objects, and the __imageId of one that
\* activeObjects.find meets.
hasSelectedImage == \E a \in activeObjects : heap[a].kind = "image"
currentImageIds == {heap[a].id : a \in {b \in activeObjects : heap[b].kind = "image"}}

\* The debounce timer of the filter panel (FilterControls.tsx 66-74), which
\* runs while an image is selected, calls handleFilterChange (App.tsx
\* 245-257): applyFilters on the canvas, then the descriptor is stored for
\* currentImageId.
handleFilterChange(filters) ==
    /\ hasSelectedImage
    /\ heap' = filtered(filters)
    /\ \E id \in currentImageIds : imageFilters' = (id :> filters) @@ imageFilters
    /\ UNCHANGED <<objects, activeObjects, historyRef, historyIndexRef, isUndoRedoRef,
                   clipboards, decodes, activeTool, cropSession, currentTransform,
                   canvasSize, isCarouselMode, carouselSlides, carouselSlideSize,
                   projectReads, exporter, view, media, isEditing>>

\* ------------------------------------------------------------ project files
\* A field of a project file: <<>> when it is missing, <<v>> when it is v.
\* The files of the model: version and canvasState missing or not, the
\* canvasState a string that does not parse or the serialization of a canvas
\* of texts, and each setting missing or different from App's initial one.
SavedText ==
    [kind |-> "textbox", id |-> NoId, src |-> "", left |-> 100, top |-> 100,
     width |-> 200, scaleX |-> 1, angle |-> 0, filters |-> <<>>,
     text |-> InitialText,
     selectable |-> TRUE, evented |-> TRUE]

ProjectFiles ==
    [version : {<<>>, <<"3.0">>},
     canvasState : {<<>>, <<[ok |-> FALSE, objects |-> <<>>]>>,
                    <<[ok |-> TRUE, objects |-> <<>>]>>,
                    <<[ok |-> TRUE, objects |-> <<SavedText>>]>>},
     canvasSize : {<<>>, <<[width |-> 1920, height |-> 1080]>>},
     isCarouselMode : {<<>>, <<TRUE>>},
     carouselSlides : {<<>>, <<3>>},
     carouselSlideSize : {<<>>, <<[width |-> 540, height |-> 1080]>>},
     imageFilters : {<<>>, <<(1 :> [brightness |-> 30, contrast |-> 0, saturation |-> 0,
                                    hue |-> 0, blur |-> 0, grayscale |-> FALSE,
                                    sepia |-> TRUE, invert |-> FALSE])>>}]

\* handleToolChange('openProject') (App.tsx 214-215, 226-228): the tool
\* becomes 'openProject', for which the tool effect of Canvas (898-902) leaves
\* crop mode, and handleOpenProject (113-118, 194) opens the file picker.
handleOpenProject ==
    /\ activeTool' = "openProject"
    /\ isCropMode' = IF activeTool = "openProject" THEN isCropMode ELSE FALSE
    /\ projectReads' = projectReads + 1
    /\ UNCHANGED <<engine, cropRect, cropImage, cropLoads, currentTransform,
                   canvasSize, isCarouselMode, carouselSlides, carouselSlideSize,
                   imageFilters, exporter, view, media, isEditing>>

\* A variant of isValidProject that looks at the version only.
isValidProjectVersionOnly(file) == file.version # <<>>

\* The validation of handleOpenProject (App.tsx 126-130).
isValidProject(file) == file.version # <<>> /\ file.canvasState # <<>>

\* JSON.parse(projectData.canvasState) (App.tsx 167) returns.
Parses(canvasState) == canvasState # <<>> /\ canvasState[1].ok

\* The onchange handler of handleOpenProject (App.tsx 118-193), once the
\* text of the picked file is read.  canvas.clear() and loadFromJSON complete
\* within the handler, the canvases of the files holding no image, and the
\* callback finds no image to filter.
openProjectFile(file) ==
    /\ projectReads > 0
    /\ projectReads' = projectReads - 1
    /\ IF ~isValidProject(file)
       THEN UNCHANGED <<engine, canvasSize, isCarouselMode, carouselSlides,
                        carouselSlideSize, imageFilters>>
       ELSE /\ canvasSize' = IF file.canvasSize # <<>>
                             THEN file.canvasSize[1] ELSE canvasSize
            /\ isCarouselMode' = IF file.isCarouselMode # <<>>
                                 THEN file.isCarouselMode[1] ELSE isCarouselMode
            /\ carouselSlides' = IF file.carouselSlides # <<>>
                                 THEN file.carouselSlides[1] ELSE carouselSlides
            /\ carouselSlideSize' = IF file.carouselSlideSize # <<>>
                                    THEN file.carouselSlideSize[1]
                                    ELSE IF file.canvasSize # <<>>
                                    THEN file.canvasSize[1] ELSE carouselSlideSize
            /\ imageFilters' = IF file.imageFilters # <<>>
                               THEN file.imageFilters[1] ELSE << >>
            /\ IF ~Parses(file.canvasState)
               THEN UNCHANGED engine
               ELSE LET loaded == loadFromJSON(file.canvasState[1].objects, Hist,
                                               isUndoRedoRef)
                    IN /\ objects' = loaded.objects
                       /\ heap' = loaded.heap
                       /\ activeObjects' = {}
                       /\ historyRef' = loaded.hist.h
                       /\ historyIndexRef' = loaded.hist.i
                       /\ UNCHANGED <<isUndoRedoRef, clipboards, decodes>>
    /\ UNCHANGED <<activeTool, cropSession, currentTransform, exporter, view, media, isEditing>>

\* ------------------------------------------------------------- text editing
\* fabric's IText.enterEditing on a double click on the textbox that is the
\* single active object: isEditing is set and the text is remembered.
enterEditing ==
    /\ isEditing = <<>>
    /\ \E r \in activeObjects :
          /\ activeObjects = {r}
          /\ heap[r].kind = "textbox"
          /\ isEditing' = <<[target |-> r, textBeforeEdit |-> heap[r].text]>>
    /\ UNCHANGED <<engine, activeTool, cropSession, currentTransform, appState,
                   exporter, view, media>>

\* A key typed into the textbox that is edited: its text becomes `t`
\* (text:changed, which the canvas does not listen to).
typeText(t) ==
    /\ isEditing # <<>>
    /\ heap' = [heap EXCEPT ![isEditing[1].target].text = t]
    /\ UNCHANGED <<objects, activeObjects, historyRef, historyIndexRef, isUndoRedoRef,
                   clipboards, decodes, editor>>

\* fabric's IText.exitEditing, called by onDeselect when the textbox that is
\* edited stops being the active object: object:modified fires when the
\* text is not the one remembered, and its handler saves the canvas
\* (Canvas.tsx 661-670).
exitEditing(hist) ==
    IF isEditing # <<>> /\ heap[isEditing[1].target].text # isEditing[1].textBeforeEdit
    THEN saveState(hist, toJSON(objects, heap), isUndoRedoRef)
    ELSE hist

\* A click while a textbox is edited, on other objects (with shift or a
\* marquee: `S`) or on none.
clickAway(S) ==
    LET hist == exitEditing(Hist)
    IN /\ isEditing # <<>>
       /\ isEditing[1].target \notin S
       /\ activeObjects' = S
       /\ heap' = Collect(heap, objects, S, pasteOps)
       /\ historyRef' = hist.h
       /\ historyIndexRef' = hist.i
       /\ isEditing' = <<>>
       /\ UNCHANGED <<objects, isUndoRedoRef, clipboards, decodes, activeTool,
                      cropSession, currentTransform, appState, exporter, view, media>>

\* canvas.getActiveObject() is a text object in editing state (Canvas.tsx
\* 741-747).
EditingActiveText ==
    /\ isEditing # <<>>
    /\ activeObjects = {isEditing[1].target}
    /\ heap[isEditing[1].target].kind \in {"textbox", "i-text", "text"}

\* Delete or Backspace without the look at the text that is edited.
handleKeyDownAlwaysDeletes ==
    deleteSelectedObjects /\ UNCHANGED editor

\* handleKeyDown (Canvas.tsx 738-750) for Delete or Backspace: a key for
\* the text while one is edited, deleteSelectedObjects otherwise.
handleKeyDown ==
    IF EditingActiveText
    THEN UNCHANGED <<engine, editor>>
    ELSE deleteSelectedObjects /\ UNCHANGED editor

\* ------------------------------------------------------- media, canvas size
\* The effect on selectedMedia, mediaItems and addImageToCanvas (Canvas.tsx
\* 1254-1262) after a render in which one of the three has changed
\* (`changed`), the selection then being `selected` in the list `items`.
selectedMediaEffect(changed, selected, items) ==
    IF changed /\ selected # NoId /\ selected \in items
    THEN addImageToCanvas
    ELSE UNCHANGED engine

\* Whether selectedMediaEffect starts a decode.
AddsImage(changed, selected, items) ==
    changed /\ selected # NoId /\ selected \in items

\* handleMediaAdd (App.tsx 31-42) for one file: a new array of media items.
handleMediaAdd(id) ==
    /\ id \notin mediaItems
    /\ mediaItems' = mediaItems \cup {id}
    /\ selectedMediaEffect(TRUE, selectedMedia, mediaItems')
    /\ UNCHANGED <<activeTool, cropSession, currentTransform, appState, exporter,
                   view, selectedMedia, isEditing>>

\* handleMediaSelect (App.tsx 44-46): a click on an item of the list.
handleMediaSelect(id) ==
    /\ id \in mediaItems
    /\ selectedMedia' = id
    /\ selectedMediaEffect(id # selectedMedia, id, mediaItems)
    /\ UNCHANGED <<activeTool, cropSession, currentTransform, appState, exporter,
                   view, mediaItems, isEditing>>

\* handleMediaRemove (App.tsx 48-62): filter makes a new array of items.
handleMediaRemove(id) ==
    /\ id \in mediaItems
    /\ mediaItems' = mediaItems \ {id}
    /\ selectedMedia' = IF selectedMedia = id THEN NoId ELSE selectedMedia
    /\ selectedMediaEffect(TRUE, selectedMedia', mediaItems')
    /\ UNCHANGED <<activeTool, cropSession, currentTransform, appState, exporter,
                   view, isEditing>>

\* const containerWidth (Canvas.tsx 57).
containerWidth == IF isCarouselMode THEN width * carouselSlides ELSE width

\* The sizes of SizePresets the model offers.
Sizes == {[width |-> 1080, height |-> 1080], [width |-> 1080, height |-> 1350]}

\* The effects of Canvas after a render with new props, the canvas being
\* newWidth by newHeight, newContainerWidth wide in all, in newSlides slides:
\* the scale is fitted again when the height or the whole width has changed
\* (803-828) and the canvas is centred after a delay (1476-1500, and 830-869
\* unless the carousel has several slides); addImageToCanvas, made anew
\* for a new width or height (930, 1064), runs the effect on selectedMedia.
propsEffects(newWidth, newHeight, newContainerWidth, newSlides) ==
    LET resized == newContainerWidth # containerWidth \/ newHeight # height
        newZoom == IF resized THEN calculateScale(viewport, newHeight)
                   ELSE currentZoom
    IN /\ currentZoom' = newZoom
       /\ scrollLeft' = Scrolled(scrollLeft, viewport, newContainerWidth, newZoom)
       /\ centerTimer' = (\/ centerTimer
                          \/ resized
                          \/ newSlides # carouselSlides /\ newSlides <= 1)
       /\ selectedMediaEffect(newWidth # width \/ newHeight # height,
                              selectedMedia, mediaItems)

\* handleSizeChange (App.tsx 64-70).
handleSizeChange(size) ==
    /\ canvasSize' = size
    /\ carouselSlideSize' = IF isCarouselMode THEN size ELSE carouselSlideSize
    /\ propsEffects(size.width, size.height,
                    IF isCarouselMode THEN size.width * carouselSlides ELSE size.width,
                    carouselSlides)
    /\ UNCHANGED <<activeTool, cropSession, currentTransform, isCarouselMode,
                   carouselSlides, imageFilters, projectReads, exporter,
                   viewport, mousePositionRef, pan, media, isEditing>>

\* --------------------------------------------------------------- zoom, pan
\* The scroll offset that keeps the canvas point under mouseX where it is
\* (Canvas.tsx 478-496, 1437-1454): canvasX * newZoom - mouseX with
\* canvasX = (scrollLeft + mouseX) / currentZoom, which the browser rounds
\* to a whole pixel, up or down, and keeps inside the scrollable range.  A
\* zoom of 0 gives no finite value, and the browser scrolls to 0.
anchoredScroll(mouseX, newZoom, roundUp) ==
    LET scrollX == scrollLeft + mouseX
        exact == scrollX * newZoom
        newScrollLeft ==
            IF currentZoom = 0 THEN 0
            ELSE (exact \div currentZoom) - mouseX
                 + (IF roundUp /\ exact % currentZoom # 0 THEN 1 ELSE 0)
    IN Scrolled(newScrollLeft, viewport, containerWidth, newZoom)

\* The two effects that centre the canvas (Canvas.tsx 830-869, 1476-1500)
\* after a render in which the scale has changed: the first arms its timer
\* unless the carousel has several slides.
zoomed(newZoom, newScrollLeft) ==
    /\ currentZoom' = newZoom
    /\ scrollLeft' = newScrollLeft
    /\ centerTimer' = (centerTimer \/ carouselSlides <= 1)
    /\ UNCHANGED <<engine, activeTool, cropSession, currentTransform, appState,
                   exporter, viewport, mousePositionRef, pan, media, isEditing>>

\* handleZoomWithFocus (Canvas.tsx 447-498): the zoom buttons and the keys
\* +, - and Ctrl+0.  The pointer is the last one tracked, or the middle of
\* the viewport when that is not inside it.
handleZoomWithFocus(direction, roundUp) ==
    LET newZoom == CASE direction = "reset" -> Percent
                     [] direction = "in" -> Min({currentZoom + ZoomStep, MaxZoom})
                     [] direction = "out" -> Max({currentZoom - ZoomStep, MinZoom})
        tracked == mousePositionRef
        mouseX == IF tracked <= 0 \/ tracked >= viewport.width
                  THEN viewport.width \div 2 ELSE tracked
    IN IF newZoom = currentZoom
       THEN UNCHANGED <<engine, editor>>
       ELSE zoomed(newZoom, anchoredScroll(mouseX, newZoom, roundUp))

\* handleWheel (Canvas.tsx 1421-1456) for a wheel event with Ctrl or Meta
\* held, at mouseX inside the container.
handleWheel(deltaY, mouseX, roundUp) ==
    LET delta == -(deltaY \div WheelGain)
        newZoom == Max({MinZoom, Min({MaxZoom, currentZoom + delta})})
    IN IF newZoom = currentZoom
       THEN UNCHANGED <<engine, editor>>
       ELSE zoomed(newZoom, anchoredScroll(mouseX, newZoom, roundUp))

\* What the browser makes of an assignment to scrollContainer.scrollLeft.
panTo(value) == Scrolled(value, viewport, containerWidth, currentZoom)

\* scrollContainer.scrollLeft = panStartRef.current.scrollLeft - deltaX
\* (Canvas.tsx 1398-1401).
panScroll(start, x) == panTo(start.scrollLeft - (x - start.x))

\* The mousemove listeners (Canvas.tsx 1392-1409): the pointer is tracked,
\* and the view is scrolled while a pan is in progress.
handleMouseMove(x) ==
    /\ mousePositionRef' = x
    /\ scrollLeft' = IF isPanning /\ panStartRef # <<>>
                     THEN panScroll(panStartRef[1], x)
                     ELSE scrollLeft
    /\ UNCHANGED <<engine, activeTool, cropSession, currentTransform, appState,
                   exporter, currentZoom, viewport, centerTimer, pan,
                   media, isEditing>>

\* The keydown listener for the space key on the page (Canvas.tsx 1266-1270).
spaceKeyDown ==
    /\ isSpacePressed' = (isSpacePressed \/ ~isPanning)
    /\ UNCHANGED <<engine, activeTool, cropSession, currentTransform, appState,
                   exporter, currentZoom, viewport, scrollLeft, mousePositionRef,
                   centerTimer, isPanning, panStartRef, media, isEditing>>

\* handleKeyUp for the space key (Canvas.tsx 1344-1350).
handleKeyUp ==
    /\ isSpacePressed' = FALSE
    /\ isPanning' = FALSE
    /\ UNCHANGED <<engine, activeTool, cropSession, currentTransform, appState,
                   exporter, currentZoom, viewport, scrollLeft, mousePositionRef,
                   centerTimer, panStartRef, media, isEditing>>

\* The mouse buttons: 0 is the main one, 1 the middle one.
Buttons == {0, 1}

\* handleMouseDown on the scroll container (Canvas.tsx 1378-1390).
handleMouseDown(button, x) ==
    /\ IF isSpacePressed \/ button = 1
       THEN /\ isPanning' = TRUE
            /\ panStartRef' = <<[x |-> x, scrollLeft |-> scrollLeft]>>
       ELSE UNCHANGED <<isPanning, panStartRef>>
    /\ UNCHANGED <<engine, activeTool, cropSession, currentTransform, appState,
                   exporter, currentZoom, viewport, scrollLeft, mousePositionRef,
                   centerTimer, isSpacePressed, media, isEditing>>

\* handleMouseUp (Canvas.tsx 1411-1419).
handleMouseUp ==
    /\ IF isPanning
       THEN isPanning' = FALSE /\ panStartRef' = <<>>
       ELSE UNCHANGED <<isPanning, panStartRef>>
    /\ UNCHANGED <<engine, activeTool, cropSession, currentTransform, appState,
                   exporter, currentZoom, viewport, scrollLeft, mousePositionRef,
                   centerTimer, isSpacePressed, media, isEditing>>

\* The window's resize listener (Canvas.tsx 805-827), the browser having
\* laid the container out at the size `vp`: the scale is fitted again.
handleResize(vp) ==
    LET newZoom == calculateScale(vp, height)
    IN /\ viewport' = vp
       /\ currentZoom' = newZoom
       /\ scrollLeft' = Scrolled(scrollLeft, vp, containerWidth, newZoom)
       /\ centerTimer' = (centerTimer \/ (newZoom # currentZoom /\ carouselSlides <= 1))
       /\ UNCHANGED <<engine, activeTool, cropSession, currentTransform, appState,
                      exporter, mousePositionRef, pan, media, isEditing>>

\* The timer of a centring effect fires (Canvas.tsx 839-862, 1481-1497).
centerCanvasTimer ==
    /\ centerTimer
    /\ centerTimer' = FALSE
    /\ scrollLeft' = centerCanvas(viewport, containerWidth, currentZoom)
    /\ UNCHANGED <<engine, activeTool, cropSession, currentTransform, appState,
                   exporter, currentZoom, viewport, mousePositionRef, pan, media,
                   isEditing>>

\* ------------------------------------------------------------------- export
\* handleToolChange('carousel') (App.tsx 214-220): the tool becomes
\* 'carousel', for which the tool effect of Canvas (898-902) leaves crop
\* mode, and carousel mode is toggled.
toggleCarousel ==
    LET size == IF isCarouselMode THEN canvasSize ELSE carouselSlideSize
    IN /\ activeTool' = "carousel"
       /\ isCropMode' = IF activeTool = "carousel" THEN isCropMode ELSE FALSE
       /\ isCarouselMode' = ~isCarouselMode
       /\ propsEffects(size.width, size.height,
                       IF isCarouselMode THEN size.width
                       ELSE size.width * carouselSlides,
                       carouselSlides)
       /\ UNCHANGED <<cropRect, cropImage, cropLoads, currentTransform,
                      canvasSize, carouselSlides, carouselSlideSize, imageFilters,
                      projectReads, exporter, viewport, mousePositionRef, pan, media,
                      isEditing>>

\* setCarouselSlides, handed to the toolbar as onCarouselSlidesChange
\* (App.tsx 463).
setCarouselSlides(n) ==
    /\ carouselSlides' = n
    /\ propsEffects(width, height, IF isCarouselMode THEN width * n ELSE width, n)
    /\ UNCHANGED <<activeTool, cropSession, currentTransform, canvasSize,
                   isCarouselMode, carouselSlideSize, imageFilters, projectReads,
                   exporter, viewport, mousePositionRef, pan, media, isEditing>>

\* handleExport up to its first await (App.tsx 259-268): the selection is
\* discarded; the callback holds the carousel settings of its render.
handleExport ==
    /\ exportJob.phase = "idle"
    /\ activeObjects' = {}
    /\ heap' = Collect(heap, objects, {}, pasteOps)
    /\ historyRef' = exitEditing(Hist).h
    /\ historyIndexRef' = exitEditing(Hist).i
    /\ isEditing' = <<>>
    /\ exportJob' = [phase |-> "waiting", slide |-> 0,
                     slideWidth |-> carouselSlideSize.width,
                     slides |-> carouselSlides, carousel |-> isCarouselMode]
    /\ UNCHANGED <<objects, isUndoRedoRef, clipboards,
                   decodes, activeTool, cropSession, currentTransform, appState,
                   downloads, view, media>>

\* The white fill of a slide's canvas, and of the fabric canvas.
Background ==
    [kind |-> "background", id |-> NoId, src |-> "", left |-> 0, top |-> 0,
     width |-> 0, scaleX |-> 1, angle |-> 0, filters |-> <<>>,
     text |-> "",
     selectable |-> FALSE, evented |-> FALSE]

\* "Check if object is on this slide" (App.tsx 324-329).
onSlide(obj, slideLeft, slideRight) ==
    LET objLeft == obj.left
        objRight == objLeft + obj.width * obj.scaleX
    IN objRight > slideLeft /\ objLeft < slideRight

\* What the slide's canvas shows when toDataURL reads it (App.tsx 313-349),
\* the objects taken in canvas order.  The callback of obj.clone runs inside
\* the loop for an object that needs no decoding: it moves the clone left by
\* slideLeft and renders it through a fabric.Canvas of its own on the slide's
\* canvas, which clears that canvas and draws the clone; dispose() resets
\* the canvas or not, with the version of fabric.  The clone of an image is
\* decoded first and its callback runs after toDataURL.
RECURSIVE drawSlide(_, _, _, _, _)
drawSlide(content, objs, slideLeft, slideRight, disposeResets) ==
    IF objs = <<>> THEN content
    ELSE LET obj == Head(objs)
             cloned == [clone(obj) EXCEPT !.left = @ - slideLeft]
             drawn == IF onSlide(obj, slideLeft, slideRight) /\ ~IsAsync(obj)
                      THEN IF disposeResets THEN <<>> ELSE <<cloned>>
                      ELSE content
         IN drawSlide(drawn, Tail(objs), slideLeft, slideRight, disposeResets)

\* The rest of handleExport (App.tsx 270-389), from one await to the next.
\* In a carousel of several slides the slides from exportJob.slide on are
\* taken in order: `skips` of them get no 2d context and are passed over,
\* the next one is drawn and downloaded, or throws, which ends the export in
\* the catch.  Otherwise the fabric canvas is downloaded as it is.
exportSlide(skips, outcome, disposeResets) ==
    LET i == exportJob.slide + skips
        slideLeft == i * exportJob.slideWidth
        slideRight == (i + 1) * exportJob.slideWidth
        scene == toJSON(objects, heap)
    IN /\ exportJob.phase \in {"waiting", "slides"}
       /\ IF exportJob.carousel /\ exportJob.slides > 1
          THEN /\ i <= exportJob.slides
               /\ IF i = exportJob.slides \/ outcome = "throws"
                  THEN exportJob' = NoExport /\ UNCHANGED downloads
                  ELSE /\ downloads' =
                            Append(downloads,
                                   [name |-> "carousel-slide", slide |-> i + 1,
                                    raster |-> drawSlide(<<Background>>, scene, slideLeft,
                                                         slideRight, disposeResets)])
                       /\ exportJob' = IF i < exportJob.slides - 1
                                       THEN [exportJob EXCEPT !.phase = "slides",
                                                              !.slide = i + 1]
                                       ELSE NoExport
          ELSE /\ skips = 0
               /\ exportJob' = NoExport
               /\ IF outcome = "throws"
                  THEN UNCHANGED downloads
                  ELSE downloads' = Append(downloads,
                                           [name |-> "frameflow-export", slide |-> 0,
                                            raster |-> <<Background>> \o scene])
       /\ UNCHANGED <<engine, activeTool, cropSession, currentTransform, appState,
                      view, media, isEditing>>

\* --------------------------------------------------------------- observers
\* exportScenes is <<>> while no export is under way, <<s>> from the call of
\* handleExport on, with s the serialized canvas of that moment, and
\* <<s, t>> once the first slide was drawn, from the canvas t.
ExportScenesNext ==
    IF exportJob'.phase = "idle" THEN <<>>
    ELSE IF exportJob.phase = "idle" THEN <<toJSON(objects', heap')>>
    ELSE IF exportJob.phase = "waiting" /\ exportJob'.phase = "slides"
    THEN <<exportScenes[1], toJSON(objects, heap)>>
    ELSE exportScenes

\* `probe`, `recent` and `lastCopy` record what has happened, for the properties below;
\* no operation of the engine reads them.
BagOfSeq(q) == [v \in Range(q) |-> Cardinality({k \in DOMAIN q : q[k] = v})]

ClonesOf(S) ==
    [v \in {clone(heap[r]) : r \in S} |-> Cardinality({r \in S : clone(heap[r]) = v})]

ProbeOff == [phase |-> "off", scene |-> <<>>, cursor |-> 0]

\* probe.phase is "commits" while only edits have happened; the first undo()
\* records the serialized canvas and the cursor and the phase follows the
\* undo, its load, the redo() issued right after and its load ("undoing",
\* "undone", "redoing", "redone"); any other step ends the observation.
ProbeNext(kind) ==
    CASE kind = "undo" ->
            IF probe.phase = "commits" /\ historyIndexRef >= 1
            THEN [phase |-> IF pendingLoads' = pendingLoads THEN "undone" ELSE "undoing",
                  scene |-> toJSON(objects, heap),
                  cursor |-> historyIndexRef]
            ELSE IF probe.phase = "commits" THEN probe ELSE ProbeOff
      [] kind = "redo" ->
            IF probe.phase = "undone"
            THEN [probe EXCEPT !.phase =
                     IF pendingLoads' = pendingLoads THEN "redone" ELSE "redoing"]
            ELSE IF probe.phase = "commits" THEN probe ELSE ProbeOff
      [] kind = "load" ->
            IF probe.phase = "undoing" THEN [probe EXCEPT !.phase = "undone"]
            ELSE IF probe.phase = "redoing" THEN [probe EXCEPT !.phase = "redone"]
            ELSE ProbeOff
      [] OTHER -> IF probe.phase = "commits" THEN probe ELSE ProbeOff

\* lastCopy.clones is the bag of clones the latest copy() / cut() asked for;
\* an external-image paste, which empties the clipboard, resets it.
LastCopyNext(kind) ==
    IF kind \in {"copy", "cut"} /\ activeObjects # {}
    THEN [op |-> kind, clones |-> ClonesOf(activeObjects)]
    ELSE IF kind = "syspaste" /\ systemImageLoads' > systemImageLoads
    THEN [op |-> "none", clones |-> EmptyBag]
    ELSE lastCopy

RecentOff == [op |-> "none", scene |-> <<>>, arg |-> <<>>]

\* recent.op is "crop" right after a crop session was entered, with the
\* canvas as it serialized before; "cancel" when the very next step cancelled
\* it; "clear" right after a Clear-All; "none" after any other step that is
\* no applyFilters.
RecentNext(kind) ==
    CASE kind = "crop" ->
            IF cropRect' # NoRef /\ cropRect' # cropRect
            THEN [op |-> "crop", scene |-> toJSON(objects, heap), arg |-> <<>>]
            ELSE RecentOff
      [] kind = "cancel" ->
            IF recent.op = "crop" THEN [recent EXCEPT !.op = "cancel"] ELSE RecentOff
      [] kind = "clear" -> [op |-> "clear", scene |-> <<>>, arg |-> <<>>]
      [] kind = "settle" -> IF recent.op = "zoom" THEN recent ELSE RecentOff
      [] OTHER -> RecentOff

\* recent.op is "decoded" right after the cropped image of an apply `c` was
\* decoded, with the canvas as it serialized before, and "redecoded" when
\* the very next step is the decode of another apply of the same overlay and
\* image.
RecentCropNext(c) ==
    IF recent.op = "decoded" /\ recent.arg = c
    THEN [op |-> "redecoded", scene |-> toJSON(objects, heap), arg |-> c]
    ELSE [op |-> "decoded", scene |-> toJSON(objects, heap), arg |-> c]

ObserveCrop(c) ==
    /\ probe' = ProbeNext("edit")
    /\ recent' = RecentCropNext(c)
    /\ lastCopy' = LastCopyNext("edit")
    /\ exportScenes' = ExportScenesNext

\* recent.op is "zoom" right after a zoom command has changed the zoom,
\* with the zoom and the scroll offset before it and the screen position it
\* is anchored at: `pointer` when that is inside the viewport, the middle
\* of the viewport otherwise; and still when a centring timer fires next.
RecentZoomNext(pointer) ==
    IF currentZoom' = currentZoom THEN RecentOff
    ELSE [op |-> "zoom", scene |-> <<>>,
          arg |-> [z1 |-> currentZoom, scroll |-> scrollLeft,
                   p |-> IF 0 < pointer /\ pointer < viewport.width THEN pointer
                         ELSE viewport.width \div 2]]

ObserveZoom(pointer) ==
    /\ probe' = ProbeNext("edit")
    /\ recent' = RecentZoomNext(pointer)
    /\ lastCopy' = LastCopyNext("edit")
    /\ exportScenes' = ExportScenesNext

\* recent.op is "undo" right after an undo() called with the cursor at 0 or
\* below, "redo" right after a redo() called with the cursor on the last
\* snapshot or beyond, with the canvas, the timeline, the cursor and the
\* replay flag as they were at the call.
RecentEdgeNext(kind) ==
    IF \/ kind = "undo" /\ historyIndexRef <= 0
       \/ kind = "redo" /\ historyIndexRef >= Len(historyRef) - 1
    THEN [op |-> kind, scene |-> toJSON(objects, heap),
          arg |-> <<historyRef, historyIndexRef, isUndoRedoRef, objects>>]
    ELSE RecentOff

ObserveEdge(kind) ==
    /\ probe' = ProbeNext(kind)
    /\ recent' = RecentEdgeNext(kind)
    /\ lastCopy' = LastCopyNext(kind)
    /\ exportScenes' = ExportScenesNext

\* Where the one active object stands on the canvas when it is an image,
\* 0 when the active object is none, no image or a selection of several.
ActiveImage ==
    IF \E a \in activeObjects : activeObjects = {a} /\ heap[a].kind = "image"
    THEN CHOOSE k \in DOMAIN objects : objects[k] \in activeObjects
    ELSE 0

\* recent.op is "applied" right after any applyFilters(d), with the canvas,
\* the place of the active image, the timeline and the clipboard before it.
RecentFrameNext(d) ==
    [op |-> "applied", scene |-> toJSON(objects, heap),
     arg |-> [target |-> ActiveImage, objects |-> objects,
              history |-> <<historyRef, historyIndexRef>>,
              clipboard |-> clipboardRef, d |-> d]]

ObserveFrame(d) ==
    /\ probe' = ProbeNext("edit")
    /\ recent' = RecentFrameNext(d)
    /\ lastCopy' = LastCopyNext("edit")
    /\ exportScenes' = ExportScenesNext

\* recent.op is "key" right after any Delete or Backspace, with the canvas,
\* the objects and their attributes, the selection, the timeline and
\* whether a text was being edited before it.
RecentKeyNext ==
    [op |-> "key", scene |-> toJSON(objects, heap),
     arg |-> [objects |-> objects, attrs |-> [r \in Range(objects) |-> heap[r]],
              selection |-> activeObjects,
              history |-> <<historyRef, historyIndexRef>>,
              editing |-> isEditing # <<>>]]

ObserveKey ==
    /\ probe' = ProbeNext("edit")
    /\ recent' = RecentKeyNext
    /\ lastCopy' = LastCopyNext("edit")
    /\ exportScenes' = ExportScenesNext

\* recent.op is "pasted" right after the step in which the last clone of a
\* pasteObjects call was added to the canvas, with the objects that call
\* added: `before` are those its earlier callbacks added, `pending` tells
\* whether clones of the call are still decoding after the step.
RecentPasteNext(before, pending) ==
    IF objects' # objects /\ ~pending
    THEN [op |-> "pasted", scene |-> <<>>,
          arg |-> [added |-> before \cup (Range(objects') \ Range(objects))]]
    ELSE RecentOff

ObservePaste(before, pending) ==
    /\ probe' = ProbeNext("edit")
    /\ recent' = RecentPasteNext(before, pending)
    /\ lastCopy' = LastCopyNext("edit")
    /\ exportScenes' = ExportScenesNext

\* recent.op is "moved" right after any mousemove to `x`, with the pan that
\* was in progress and the scroll position before it.
RecentMoveNext(x) ==
    [op |-> "moved", scene |-> <<>>,
     arg |-> [panning |-> isPanning, start |-> panStartRef, before |-> scrollLeft,
              x |-> x]]

ObserveMove(x) ==
    /\ probe' = ProbeNext("edit")
    /\ recent' = RecentMoveNext(x)
    /\ lastCopy' = LastCopyNext("edit")
    /\ exportScenes' = ExportScenesNext

\* recent.op is "loaded" right after the decode of a snapshot handed to
\* loadFromJSON completed, with that snapshot, the snapshot at the cursor
\* and the replay flag as they were before, how many loads were in flight,
\* and how many were when the step before was such a completion too.
RecentLoadNext(state) ==
    [op |-> "loaded", scene |-> state,
     arg |-> [target |-> historyRef[historyIndexRef + 1], flag |-> isUndoRedoRef,
              loads |-> BagCardinality(pendingLoads),
              prior |-> IF recent.op = "loaded" THEN recent.arg.loads ELSE 0]]

ObserveLoad(state) ==
    /\ probe' = ProbeNext("load")
    /\ recent' = RecentLoadNext(state)
    /\ lastCopy' = LastCopyNext("load")
    /\ exportScenes' = ExportScenesNext

\* What App and the engine hold that a project load writes.
Loadable ==
    <<canvasSize, isCarouselMode, carouselSlides, carouselSlideSize, imageFilters,
      historyRef, historyIndexRef>>

\* recent.op is "rejected" right after a project file was refused, and
\* "failed" right after the load of a file ended in the catch block (App.tsx
\* 186-189), with the canvas and what a load writes as they were before.
RecentOpenNext(file) ==
    IF file.version = <<>> \/ file.canvasState = <<>>
    THEN [op |-> "rejected", scene |-> toJSON(objects, heap), arg |-> Loadable]
    ELSE IF ~file.canvasState[1].ok
    THEN [op |-> "failed", scene |-> toJSON(objects, heap), arg |-> Loadable]
    ELSE RecentOff

ObserveOpen(file) ==
    /\ probe' = ProbeNext("edit")
    /\ recent' = RecentOpenNext(file)
    /\ lastCopy' = LastCopyNext("edit")
    /\ exportScenes' = ExportScenesNext

\* recent.op is "export" right after a step of an export in a carousel of
\* several slides, with the slide it drew or failed on, how it ended and the
\* number of slides.
RecentExportNext(skips, outcome) ==
    IF exportJob.carousel /\ exportJob.slides > 1
    THEN [op |-> "export", scene |-> toJSON(objects, heap),
          arg |-> [slide |-> exportJob.slide + skips, outcome |-> outcome,
                   width |-> exportJob.slideWidth, slides |-> exportJob.slides]]
    ELSE RecentOff

ObserveExport(skips, outcome) ==
    /\ probe' = ProbeNext("edit")
    /\ recent' = RecentExportNext(skips, outcome)
    /\ lastCopy' = LastCopyNext("edit")
    /\ exportScenes' = ExportScenesNext

\* `to` is `from` with one of its three booleans switched on.
SwitchedOn(from, to) ==
    \E f \in {"grayscale", "sepia", "invert"} :
        ~from[f] /\ to = [from EXCEPT ![f] = TRUE]

\* applyFilters(d) on an active image: recent.op is "filter" after it, with d
\* and the canvas as it serializes then; "twice" when the next step applies d
\* again; "toggled" when the next step applies d with one boolean switched
\* on, and "again" when the step after that applies d.
RecentFilterNext(d) ==
    IF ~FilterTarget THEN RecentOff
    ELSE IF recent.op = "filter" /\ d = recent.arg
    THEN [recent EXCEPT !.op = "twice"]
    ELSE IF recent.op = "filter" /\ SwitchedOn(recent.arg, d)
    THEN [recent EXCEPT !.op = "toggled"]
    ELSE IF recent.op = "toggled" /\ d = recent.arg
    THEN [recent EXCEPT !.op = "again"]
    ELSE [op |-> "filter", scene |-> toJSON(objects', heap'), arg |-> d]

ObserveFilter(d) ==
    /\ probe' = ProbeNext("edit")
    /\ recent' = RecentFilterNext(d)
    /\ lastCopy' = LastCopyNext("edit")
    /\ exportScenes' = ExportScenesNext

Observe(kind) ==
    /\ probe' = ProbeNext(kind)
    /\ recent' = RecentNext(kind)
    /\ lastCopy' = LastCopyNext(kind)
    /\ exportScenes' = ExportScenesNext

\* A step of a handler of the engine: the observers follow it, and the
\* editor's state outside the engine is left as it is.
Watch(kind) == UNCHANGED editor /\ Observe(kind)

\* ------------------------------------------------------------ next state
\* New edits are explored while the timeline is shorter than `n`.
CanEdit(n) == Len(historyRef) < n
CanAdd(n) == CanEdit(n) /\ Len(objects) < MaxObjects
CanStart == InFlight < MaxInFlight
CanCreateImage == nextImageId <= MaxImages

\* The whole engine: scene edits, undo / redo and both clipboards.
Next ==
    \/ CanAdd(MaxHistory) /\ addTextObject /\ Watch("edit")
    \/ CanStart /\ CanCreateImage /\ addImageToCanvas /\ Watch("edit")
    \/ \E ok \in BOOLEAN :
          (ok => CanAdd(MaxHistory)) /\ imageDecoded(ok) /\ Watch("edit")
    \/ \E S \in SUBSET Range(objects) : selectObjects(S) /\ Watch("edit")
    \/ CanEdit(MaxHistory) /\ deleteSelectedObjects /\ Watch("edit")
    \/ CanStart /\ handleUndo /\ Watch("undo")
    \/ CanStart /\ handleRedo /\ Watch("redo")
    \/ \E state \in BagToSet(pendingLoads) :
          (isUndoRedoRef \/ CanEdit(MaxHistory)) /\ loadCompleted(state) /\ Watch("load")
    \/ CanStart /\ copyObjects /\ Watch("copy")
    \/ \E cloned \in BagToSet(pendingClones) : cloneCompleted(cloned) /\ Watch("edit")
    \/ CanEdit(MaxHistory) /\ CanStart /\ cutObjects /\ Watch("cut")
    \/ CanEdit(MaxHistory) /\ CanStart /\ PasteInBounds /\ pasteObjects /\ Watch("edit")
    \/ \E k \in DOMAIN pasteOps : \E cloned \in BagToSet(pasteOps[k].pending) :
          CanAdd(MaxHistory) /\ pasteCloneCompleted(k, cloned) /\ Watch("edit")
    \/ \E e \in PasteEvents :
          CanEdit(MaxHistory) /\ CanStart /\ PasteInBounds /\ CanCreateImage
          /\ pasteFromSystemClipboard(e) /\ Watch("syspaste")
    \/ \E ok \in BOOLEAN :
          (ok => CanAdd(MaxHistory)) /\ systemImageDecoded(ok) /\ Watch("edit")

Spec == Init /\ [][Next]_vars
\* Edits of a canvas of MaxCapObjects objects, gestures on the selection and
\* undo / redo.  A gesture goes on while its target stays on the canvas'
\* width, below MaxScale and within one turn.
GestureTarget ==
    IF currentTransform.action = "none" THEN activeObjects ELSE currentTransform.target

CanTransform(action) ==
    /\ currentTransform.moves < MaxMoves
    /\ \A r \in GestureTarget \cap DOMAIN heap :
          /\ action = "moving" => heap[r].left + DragStep <= width
          /\ action = "scaling" => heap[r].scaleX < MaxScale
          /\ action = "rotating" => heap[r].angle + RotateStep < 360

CanAddOne == CanEdit(MaxHistory) /\ Len(objects) < MaxCapObjects

NextGesture ==
    \/ CanAddOne /\ addTextObject /\ Watch("edit")
    \/ CanStart /\ CanCreateImage /\ addImageToCanvas /\ Watch("edit")
    \/ \E ok \in BOOLEAN :
          (ok => CanAddOne) /\ imageDecoded(ok) /\ Watch("edit")
    \/ \E S \in SUBSET Range(objects) : selectObjects(S) /\ Watch("edit")
    \/ \E action \in {"moving", "scaling", "rotating"} :
          CanTransform(action) /\ objectMoving(action) /\ Observe("edit")
    \/ (isUndoRedoRef \/ CanEdit(MaxHistory)) /\ objectModified /\ Observe("edit")
    \/ CanStart /\ handleUndo /\ Watch("undo")
    \/ CanStart /\ handleRedo /\ Watch("redo")
    \/ \E state \in BagToSet(pendingLoads) :
          (isUndoRedoRef \/ CanEdit(MaxHistory)) /\ loadCompleted(state) /\ Watch("load")

SpecGesture == Init /\ [][NextGesture]_vars

\* The crop tool on a canvas of images and texts, with Clear-All; the
\* overlay may be one object more than MaxObjects.
Tools == {"select", "text", "crop"}

NextCrop ==
    \/ CanStart /\ CanCreateImage /\ addImageToCanvas /\ Watch("edit")
    \/ \E ok \in BOOLEAN :
          (ok => CanEdit(MaxEdits)) /\ imageDecoded(ok) /\ Watch("edit")
    \/ \E S \in SUBSET Range(objects) : selectObjects(S) /\ Watch("edit")
    \/ discardActiveObject /\ Observe("edit")
    \/ \E tool \in Tools :
          CanEdit(MaxEdits) /\ Len(objects) <= MaxObjects /\ handleToolChange(tool)
          /\ Observe(IF tool = "crop" THEN "crop" ELSE "edit")
    \/ BagCardinality(cropLoads) < MaxCropLoads /\ applyCrop /\ Observe("edit")
    \/ \E c \in BagToSet(cropLoads) :
          cropDecoded(c) /\ ObserveCrop(c)
    \/ CanEdit(MaxEdits) /\ cancelCrop /\ Observe("cancel")
    \/ CanEdit(MaxEdits) /\ clearAllObjects /\ Observe("clear")

SpecCrop == Init /\ [][NextCrop]_vars

\* The filters of the one object of a canvas, an image or a text.
NextFilters ==
    \/ CanAddOne /\ addTextObject /\ Watch("edit")
    \/ CanStart /\ CanCreateImage /\ addImageToCanvas /\ Watch("edit")
    \/ \E ok \in BOOLEAN :
          (ok => CanAddOne) /\ imageDecoded(ok) /\ Watch("edit")
    \/ \E S \in SUBSET Range(objects) : selectObjects(S) /\ Watch("edit")
    \/ discardActiveObject /\ Observe("edit")
    \/ \E d \in Descriptors : applyFilters(d) /\ ObserveFilter(d)

SpecFilters == Init /\ [][NextFilters]_vars

\* Exports of a scene of texts and images, dragged and scaled across the
\* slides of a carousel.
NextExport ==
    \/ CanAdd(MaxHistory) /\ addTextObject /\ Watch("edit")
    \/ CanStart /\ CanCreateImage /\ addImageToCanvas /\ Watch("edit")
    \/ \E ok \in BOOLEAN :
          (ok => CanAdd(MaxHistory)) /\ imageDecoded(ok) /\ Watch("edit")
    \/ \E S \in SUBSET Range(objects) : selectObjects(S) /\ Watch("edit")
    \/ \E action \in {"moving", "scaling"} :
          CanTransform(action) /\ objectMoving(action) /\ Observe("edit")
    \/ CanEdit(MaxHistory) /\ objectModified /\ Observe("edit")
    \/ toggleCarousel /\ Observe("edit")
    \/ \E n \in 1..MaxSlides : setCarouselSlides(n) /\ Observe("edit")
    \/ Len(downloads) < MaxDownloads /\ handleExport /\ Observe("edit")
    \/ \E skips \in 0..MaxSlides, outcome \in {"ok", "throws"}, disposeResets \in BOOLEAN :
          exportSlide(skips, outcome, disposeResets) /\ ObserveExport(skips, outcome)

SpecExport == Init /\ [][NextExport]_vars

\* The media list, its selection and the canvas size, with the decodes of
\* the images they add.
NextMedia ==
    \/ \E id \in 1..MaxMedia :
          (AddsImage(TRUE, selectedMedia, mediaItems \cup {id})
              => CanStart /\ CanCreateImage)
          /\ handleMediaAdd(id) /\ Observe("edit")
    \/ \E id \in 1..MaxMedia :
          (AddsImage(id # selectedMedia, id, mediaItems) => CanStart /\ CanCreateImage)
          /\ handleMediaSelect(id) /\ Observe("edit")
    \/ \E id \in 1..MaxMedia :
          (AddsImage(TRUE, IF selectedMedia = id THEN NoId ELSE selectedMedia,
                     mediaItems \ {id})
              => CanStart /\ CanCreateImage)
          /\ handleMediaRemove(id) /\ Observe("edit")
    \/ \E size \in Sizes :
          (AddsImage(size.width # width \/ size.height # height, selectedMedia,
                     mediaItems)
              => CanStart /\ CanCreateImage)
          /\ handleSizeChange(size) /\ Observe("edit")
    \/ \E ok \in BOOLEAN :
          (ok => CanAdd(MaxHistory)) /\ imageDecoded(ok) /\ Watch("edit")
    \/ centerCanvasTimer /\ Observe("settle")

SpecMedia == Init /\ [][NextMedia]_vars

\* Zoom and scroll of the viewport, resized, over a canvas of either size;
\* the wheel turns by DeltaYs at a pointer of Pointers inside the viewport.
\* A zoom command comes when the centring that follows the one before has
\* happened.
DeltaYs == {-500, -100, 100, 500}
Pointers == {0, 100, 600, 1500}

NextZoom ==
    \/ \E direction \in {"in", "out", "reset"}, roundUp \in BOOLEAN :
          ~centerTimer /\ handleZoomWithFocus(direction, roundUp)
          /\ ObserveZoom(mousePositionRef)
    \/ \E deltaY \in DeltaYs, roundUp \in BOOLEAN :
          \E mouseX \in {x \in Pointers : 0 < x /\ x < viewport.width} :
             ~centerTimer /\ handleWheel(deltaY, mouseX, roundUp)
             /\ ObserveZoom(mouseX)
    \/ \E x \in Pointers : handleMouseMove(x) /\ Observe("edit")
    \/ \E vp \in Viewports : handleResize(vp) /\ Observe("edit")
    \/ \E size \in Sizes : handleSizeChange(size) /\ Observe("edit")
    \/ centerCanvasTimer /\ Observe("settle")

SpecZoom == Init /\ [][NextZoom]_vars

\* Filters applied to whatever is active on a canvas of texts and an image,
\* the clipboard filled by copy; the descriptors set brightness, blur and
\* grayscale, or nothing.
FrameDescriptors ==
    {d \in Descriptors :
        /\ d.contrast = 0 /\ d.saturation = 0 /\ d.hue = 0
        /\ ~d.sepia /\ ~d.invert
        /\ (d.brightness # 0) = d.grayscale
        /\ (d.blur # 0) = d.grayscale}

NextFrame ==
    \/ CanAdd(MaxHistory) /\ addTextObject /\ Watch("edit")
    \/ CanStart /\ CanCreateImage /\ addImageToCanvas /\ Watch("edit")
    \/ \E ok \in BOOLEAN :
          (ok => CanAdd(MaxHistory)) /\ imageDecoded(ok) /\ Watch("edit")
    \/ \E S \in SUBSET Range(objects) : selectObjects(S) /\ Watch("edit")
    \/ discardActiveObject /\ Observe("edit")
    \/ CanStart /\ copyObjects /\ Watch("copy")
    \/ \E cloned \in BagToSet(pendingClones) : cloneCompleted(cloned) /\ Watch("edit")
    \/ \E d \in FrameDescriptors : applyFilters(d) /\ ObserveFrame(d)

SpecFrame == Init /\ [][NextFrame]_vars

\* Every kind of edit of the canvas: additions, removals, drags, stacking
\* keys, filters and Clear-All.
NextCommit ==
    \/ CanAdd(MaxHistory) /\ addTextObject /\ Watch("edit")
    \/ CanStart /\ CanCreateImage /\ addImageToCanvas /\ Watch("edit")
    \/ \E ok \in BOOLEAN :
          (ok => CanAdd(MaxHistory)) /\ imageDecoded(ok) /\ Watch("edit")
    \/ \E S \in SUBSET Range(objects) : selectObjects(S) /\ Watch("edit")
    \/ CanEdit(MaxHistory) /\ deleteSelectedObjects /\ Watch("edit")
    \/ \E action \in {"moving", "scaling"} :
          CanTransform(action) /\ objectMoving(action) /\ Observe("edit")
    \/ CanEdit(MaxHistory) /\ objectModified /\ Observe("edit")
    \/ \E key \in ReorderKeys : reorderKeyDown(key) /\ Watch("edit")
    \/ \E d \in FrameDescriptors : applyFilters(d) /\ Observe("edit")
    \/ CanEdit(MaxHistory) /\ clearAllObjects /\ Observe("clear")

SpecCommit == Init /\ [][NextCommit]_vars

\* The filter panel at work on a canvas of texts and an image that are
\* selected alone and together, copied and pasted.
NextPanel ==
    \/ CanAdd(MaxHistory) /\ addTextObject /\ Watch("edit")
    \/ CanStart /\ CanCreateImage /\ addImageToCanvas /\ Watch("edit")
    \/ \E ok \in BOOLEAN :
          (ok => CanAdd(MaxHistory)) /\ imageDecoded(ok) /\ Watch("edit")
    \/ \E S \in SUBSET Range(objects) : selectObjects(S) /\ Watch("edit")
    \/ discardActiveObject /\ Observe("edit")
    \/ CanStart /\ copyObjects /\ Watch("copy")
    \/ \E cloned \in BagToSet(pendingClones) : cloneCompleted(cloned) /\ Watch("edit")
    \/ CanEdit(MaxHistory) /\ CanStart /\ PasteInBounds /\ pasteObjects /\ Watch("edit")
    \/ \E k \in DOMAIN pasteOps : \E cloned \in BagToSet(pasteOps[k].pending) :
          CanAdd(MaxHistory) /\ pasteCloneCompleted(k, cloned) /\ Watch("edit")
    \/ \E d \in FrameDescriptors : handleFilterChange(d) /\ Observe("edit")

SpecPanel == Init /\ [][NextPanel]_vars

\* Where the pointer is during the pans: steps shorter and longer than the
\* view can scroll.
PanPointers == {100, 110, 130, 600}

\* Pans of the view with the space key or the middle button.
NextPan ==
    \/ spaceKeyDown /\ Observe("edit")
    \/ handleKeyUp /\ Observe("edit")
    \/ \E button \in Buttons, x \in PanPointers :
          handleMouseDown(button, x) /\ Observe("edit")
    \/ \E x \in PanPointers : handleMouseMove(x) /\ ObserveMove(x)
    \/ handleMouseUp /\ Observe("edit")

SpecPan == Init /\ [][NextPan]_vars

\* Copies and pastes of texts and images, with the decodes of their clones.
NextPaste ==
    \/ CanAdd(MaxHistory) /\ addTextObject /\ Watch("edit")
    \/ CanStart /\ CanCreateImage /\ addImageToCanvas /\ Watch("edit")
    \/ \E ok \in BOOLEAN :
          (ok => CanAdd(MaxHistory)) /\ imageDecoded(ok) /\ Watch("edit")
    \/ \E S \in SUBSET Range(objects) : selectObjects(S) /\ Watch("edit")
    \/ CanStart /\ copyObjects /\ Watch("copy")
    \/ \E cloned \in BagToSet(pendingClones) : cloneCompleted(cloned) /\ Watch("edit")
    \/ CanEdit(MaxEdits) /\ CanStart /\ PasteInBounds /\ pasteObjects
          /\ UNCHANGED editor /\ ObservePaste({}, Len(pasteOps') > Len(pasteOps))
    \/ \E k \in DOMAIN pasteOps : \E cloned \in BagToSet(pasteOps[k].pending) :
          /\ CanAdd(MaxEdits) /\ pasteCloneCompleted(k, cloned)
          /\ UNCHANGED editor
          /\ ObservePaste(Range(pasteOps[k].pasted), Len(pasteOps') = Len(pasteOps))

SpecPaste == Init /\ [][NextPaste]_vars

\* Texts that are edited in place, deleted with the keyboard and exported.
NotEditing == isEditing = <<>>

NextText ==
    \/ NotEditing /\ CanAdd(MaxEdits) /\ addTextObject /\ Watch("edit")
    \/ \E S \in SUBSET Range(objects) :
          NotEditing /\ selectObjects(S) /\ Watch("edit")
    \/ enterEditing /\ Observe("edit")
    \/ \E t \in TypedTexts : typeText(t) /\ Observe("edit")
    \/ \E S \in SUBSET Range(objects) :
          CanEdit(MaxEdits) /\ clickAway(S) /\ Observe("edit")
    \/ CanEdit(MaxEdits) /\ handleKeyDown /\ ObserveKey
    \/ Len(downloads) < MaxDownloads /\ CanEdit(MaxEdits) /\ handleExport
          /\ Observe("edit")
    \/ \E skips \in 0..MaxSlides, outcome \in {"ok", "throws"}, disposeResets \in BOOLEAN :
          exportSlide(skips, outcome, disposeResets) /\ ObserveExport(skips, outcome)

SpecText == Init /\ [][NextText]_vars

\* Project files opened over a canvas of texts.
NextProject ==
    \/ CanAdd(MaxHistory) /\ addTextObject /\ Watch("edit")
    \/ \E S \in SUBSET Range(objects) : selectObjects(S) /\ Watch("edit")
    \/ CanEdit(MaxHistory) /\ deleteSelectedObjects /\ Watch("edit")
    \/ projectReads < MaxProjectReads /\ handleOpenProject /\ Observe("edit")
    \/ \E file \in ProjectFiles :
          CanEdit(MaxEdits) /\ openProjectFile(file) /\ ObserveOpen(file)

SpecProject == Init /\ [][NextProject]_vars


\* Scene edits with undo / redo, the clipboards left alone: new edits are
\* explored while the cursor is below MaxTimeline - 1, so that an edit after
\* an undo is explored too.
CanCommit == historyIndexRef + 2 <= MaxTimeline

NextHistory ==
    \/ CanCommit /\ Len(objects) < MaxObjects /\ addTextObject /\ Watch("edit")
    \/ CanStart /\ CanCreateImage /\ addImageToCanvas /\ Watch("edit")
    \/ \E ok \in BOOLEAN :
          (ok => CanCommit /\ Len(objects) < MaxObjects) /\ imageDecoded(ok)
          /\ Watch("edit")
    \/ \E S \in SUBSET Range(objects) : selectObjects(S) /\ Watch("edit")
    \/ CanCommit /\ deleteSelectedObjects /\ Watch("edit")
    \/ CanStart /\ handleUndo /\ Watch("undo")
    \/ CanStart /\ handleRedo /\ Watch("redo")
    \/ \E state \in BagToSet(pendingLoads) :
          (isUndoRedoRef \/ CanCommit) /\ loadCompleted(state) /\ Watch("load")

SpecHistory == Init /\ [][NextHistory]_vars

\* Scene edits with undo / redo, the completions of the replays observed.
NextReplay ==
    \/ CanCommit /\ Len(objects) < MaxObjects /\ addTextObject /\ Watch("edit")
    \/ CanStart /\ CanCreateImage /\ addImageToCanvas /\ Watch("edit")
    \/ \E ok \in BOOLEAN :
          (ok => CanCommit /\ Len(objects) < MaxObjects) /\ imageDecoded(ok)
          /\ Watch("edit")
    \/ \E S \in SUBSET Range(objects) : selectObjects(S) /\ Watch("edit")
    \/ CanCommit /\ deleteSelectedObjects /\ Watch("edit")
    \/ CanStart /\ handleUndo /\ Watch("undo")
    \/ CanStart /\ handleRedo /\ Watch("redo")
    \/ \E state \in BagToSet(pendingLoads) :
          (isUndoRedoRef \/ CanCommit) /\ loadCompleted(state)
          /\ UNCHANGED editor /\ ObserveLoad(state)

SpecReplay == Init /\ [][NextReplay]_vars

\* Scene edits with undo / redo, the calls at either end of the timeline
\* observed.
NextEdge ==
    \/ CanCommit /\ Len(objects) < MaxObjects /\ addTextObject /\ Watch("edit")
    \/ CanStart /\ CanCreateImage /\ addImageToCanvas /\ Watch("edit")
    \/ \E ok \in BOOLEAN :
          (ok => CanCommit /\ Len(objects) < MaxObjects) /\ imageDecoded(ok)
          /\ Watch("edit")
    \/ \E S \in SUBSET Range(objects) : selectObjects(S) /\ Watch("edit")
    \/ CanCommit /\ deleteSelectedObjects /\ Watch("edit")
    \/ CanStart /\ handleUndo /\ UNCHANGED editor /\ ObserveEdge("undo")
    \/ CanStart /\ handleRedo /\ UNCHANGED editor /\ ObserveEdge("redo")
    \/ \E state \in BagToSet(pendingLoads) :
          (isUndoRedoRef \/ CanCommit) /\ loadCompleted(state) /\ Watch("load")

SpecEdge == Init /\ [][NextEdge]_vars

\* Scene edits with both clipboards, without undo / redo: MaxEdits bounds the
\* snapshots a behaviour records.
NextClipboard ==
    \/ CanAdd(MaxEdits) /\ addTextObject /\ Watch("edit")
    \/ CanStart /\ CanCreateImage /\ addImageToCanvas /\ Watch("edit")
    \/ \E ok \in BOOLEAN : (ok => CanAdd(MaxEdits)) /\ imageDecoded(ok) /\ Watch("edit")
    \/ \E S \in SUBSET Range(objects) : selectObjects(S) /\ Watch("edit")
    \/ CanEdit(MaxEdits) /\ deleteSelectedObjects /\ Watch("edit")
    \/ CanStart /\ copyObjects /\ Watch("copy")
    \/ \E cloned \in BagToSet(pendingClones) : cloneCompleted(cloned) /\ Watch("edit")
    \/ CanEdit(MaxEdits) /\ CanStart /\ cutObjects /\ Watch("cut")
    \/ CanEdit(MaxEdits) /\ CanStart /\ PasteInBounds /\ pasteObjects /\ Watch("edit")
    \/ \E k \in DOMAIN pasteOps : \E cloned \in BagToSet(pasteOps[k].pending) :
          CanAdd(MaxEdits) /\ pasteCloneCompleted(k, cloned) /\ Watch("edit")
    \/ \E e \in PasteEvents :
          CanEdit(MaxEdits) /\ CanStart /\ PasteInBounds /\ CanCreateImage
          /\ pasteFromSystemClipboard(e) /\ Watch("syspaste")
    \/ \E ok \in BOOLEAN :
          (ok => CanAdd(MaxEdits)) /\ systemImageDecoded(ok) /\ Watch("edit")

SpecClipboard == Init /\ [][NextClipboard]_vars

\* Text objects added to an empty canvas and deleted again, with undo / redo:
\* few enough states for the timeline to fill up to HistoryCap and beyond.
NextCap ==
    \/ Len(objects) < MaxCapObjects /\ addTextObject /\ Watch("edit")
    \/ \E S \in SUBSET Range(objects) : selectObjects(S) /\ Watch("edit")
    \/ deleteSelectedObjects /\ Watch("edit")
    \/ handleUndo /\ Watch("undo")
    \/ handleRedo /\ Watch("redo")

SpecCap == Init /\ [][NextCap]_vars

\* ---------------------------------------------------------------- history
Scene == toJSON(objects, heap)

HasImage(json) == \E k \in DOMAIN json : json[k].kind = "image"

C2_HistoryCap ==
    /\ [](Len(historyRef) <= HistoryCap)
    /\ [][(historyIndexRef = HistoryCap - 1 /\ historyRef' # historyRef)
          => /\ historyRef' = Append(Tail(historyRef), Scene')
             /\ historyIndexRef' = HistoryCap - 1
             /\ historyRef'[historyIndexRef' + 1] = Scene']_vars

\* The timeline is full and the empty canvas saved at initialisation has
\* been evicted from its head.
C2_Witness ==
    /\ Len(historyRef) = HistoryCap
    /\ historyIndexRef = HistoryCap - 1
    /\ historyRef[1] # <<>>

\* C3: the timeline is never empty and the cursor is one of its indices.
C3_CursorInTimeline ==
    /\ Len(historyRef) >= 1
    /\ 0 <= historyIndexRef
    /\ historyIndexRef <= Len(historyRef) - 1

\* The cursor is back on the first of three snapshots while a load is
\* still in flight.
C3_Witness ==
    /\ Len(historyRef) >= 3
    /\ historyIndexRef = 0
    /\ pendingLoads # EmptyBag

\* The handlers that save the canvas once, and those that save it once per
\* object they add or remove.
CommitsOnce ==
    \/ addTextObject
    \/ imageDecoded(TRUE)
    \/ systemImageDecoded(TRUE)
    \/ \E k \in DOMAIN pasteOps : \E cloned \in BagToSet(pasteOps[k].pending) :
          pasteCloneCompleted(k, cloned)

CommitsPerObject ==
    /\ deleteSelectedObjects \/ cutObjects \/ pasteObjects
    /\ Len(objects') # Len(objects)

\* C4: a commit keeps the snapshots up to the cursor, drops those after it
\* and appends the new one; after it the cursor is the last index, so that
\* redo() has nothing to replay.
C4_CommitTruncates ==
    [][/\ (~isUndoRedoRef /\ CommitsOnce)
          => historyRef' = Append(SubSeq(historyRef, 1, historyIndexRef + 1), Scene')
       /\ (~isUndoRedoRef /\ (CommitsOnce \/ CommitsPerObject))
          => /\ SubSeq(historyRef', 1, historyIndexRef + 1)
                  = SubSeq(historyRef, 1, historyIndexRef + 1)
             /\ Len(historyRef') > historyIndexRef + 1
             /\ historyRef'[Len(historyRef')] = Scene'
             /\ historyIndexRef' = Len(historyRef') - 1
             /\ ~(historyIndexRef' < Len(historyRef') - 1)]_vars

\* An image was added and undone, and the next commit dropped its snapshot:
\* an identifier is used up, yet no snapshot of the timeline holds an image.
C4_Witness ==
    /\ nextImageId > 1
    /\ \A k \in DOMAIN historyRef : ~HasImage(historyRef[k])
    /\ Len(historyRef) >= 2
    /\ historyIndexRef = Len(historyRef) - 1
    /\ objects # <<>>

\* C5: undo(), redo() and the completion of their loads leave the timeline
\* as it is, whatever the interleaving.
C5_ReplayKeepsTimeline ==
    [][(\/ handleUndo
        \/ handleRedo
        \/ \E state \in BagToSet(pendingLoads) : loadCompleted(state))
       => historyRef' = historyRef]_vars

\* -------------------------------------------------------------- clipboard
Place(v) == <<v.kind, v.id, v.left, v.top>>

Offset(v) == <<v.kind, v.id, v.left + PasteOffset, v.top + PasteOffset>>

\* The objects a step appended to the canvas, as the places they are at.
Appended == [j \in 1..(Len(objects') - Len(objects)) |->
                Place(heap'[objects'[Len(objects) + j]])]

\* The clones whose decode a paste() step started.
Started == IF Len(pasteOps') > Len(pasteOps)
           THEN pasteOps'[Len(pasteOps')].pending
           ELSE EmptyBag

C7_IdsDistinct ==
    \A i, j \in DOMAIN objects :
        (i # j /\ heap[objects[i]].id # NoId)
        => heap[objects[i]].id # heap[objects[j]].id

\* C8: cut() of a selection of k objects of the canvas removes those k and
\* keeps the others in their order, clears the selection, and, once the
\* clones are decoded, leaves the clipboard with one clone per removed
\* object and nothing else.
C8_CutFillsClipboard ==
    /\ [][(cutObjects /\ activeObjects # {} /\ activeObjects \subseteq Range(objects))
          => /\ objects' = SelectSeq(objects, LAMBDA r : r \notin activeObjects)
             /\ activeObjects' = {}]_vars
    /\ []((lastCopy.op = "cut" /\ pendingClones = EmptyBag)
          => BagOfSeq(clipboardRef) = lastCopy.clones)

\* The steps that may write the clipboard: copy() and cut() of a selection
\* that is not empty, and the arrival of the clones they asked for.
ClipboardWriter ==
    \/ copyObjects /\ activeObjects # {}
    \/ cutObjects /\ activeObjects # {}
    \/ \E cloned \in BagToSet(pendingClones) : cloneCompleted(cloned)

\* C9: only copy() and cut() of a selection that is not empty change the
\* clipboard.
C9_OnlyCopyCutWrite ==
    [][clipboardRef' # clipboardRef => ClipboardWriter]_vars

\* C10: a paste event that carries an image whose signature differs from the
\* last one pasted starts the insertion of that image and pastes nothing of
\* the internal clipboard; any other paste event is paste() when the internal
\* clipboard holds something and changes nothing when it is empty; the
\* image, once decoded, is the one object added.
C10_SystemPastePriority ==
    [][/\ \A e \in PasteEvents :
             pasteFromSystemClipboard(e)
             => IF e.image /\ systemImageHashOf(e) # lastSystemImageHash
                THEN /\ systemImageLoads' = systemImageLoads + 1
                     /\ lastSystemImageHash' = systemImageHashOf(e)
                     /\ UNCHANGED <<objects, heap, activeObjects, pasteOps,
                                    historyRef, historyIndexRef>>
                ELSE IF Len(clipboardRef) > 0
                THEN pasteObjects /\ systemImageLoads' = systemImageLoads
                ELSE UNCHANGED engine
       /\ systemImageDecoded(TRUE)
          => /\ SubSeq(objects', 1, Len(objects)) = objects
             /\ Len(objects') = Len(objects) + 1
             /\ heap'[objects'[Len(objects')]].src = "clipboard"]_vars

\* An image pasted from outside is on the canvas next to the paste of an
\* internal clipboard entry, which a later paste event with the same image
\* fell back to.
C10_Witness ==
    /\ lastSystemImageHash # EmptyHash
    /\ Len(clipboardRef) > 0
    /\ \E i, j \in DOMAIN objects :
          /\ heap[objects[i]].src = "clipboard"
          /\ PasteDepth(heap[objects[i]]) = 0
          /\ Place(heap[objects[j]]) = Offset(clipboardRef[1])

\* C11: outside a replay, cut() of a selection of k >= 1 objects, and paste()
\* of a clipboard of k >= 1 objects that need no decoding, is one commit: the
\* timeline is cut after the cursor and gets one snapshot, that of the scene
\* after the operation, just above that of the scene before it, which one
\* undo() therefore replays.
C11_CutPasteOneCommit ==
    [][(/\ ~isUndoRedoRef
        /\ \/ cutObjects /\ activeObjects # {} /\ activeObjects \subseteq Range(objects)
           \/ /\ pasteObjects
              /\ Len(clipboardRef) > 0
              /\ \A i \in DOMAIN clipboardRef : ~IsAsync(clipboardRef[i]))
       => /\ historyRef' = Append(SubSeq(historyRef, 1, historyIndexRef + 1), Scene')
          /\ historyIndexRef' = historyIndexRef + 1
          /\ historyRef'[historyIndexRef'] = Scene]_vars

C13_StaleDecodeDiscarded ==
    [][/\ \A c \in BagToSet(cropLoads) :
             (cropDecoded(c) /\ cropRect # c.rect) => Scene' = Scene
       /\ (recent.op = "clear" /\ (imageDecoded(TRUE) \/ systemImageDecoded(TRUE)))
          => Scene' = Scene]_vars

\* C19: the crop tool requested while no object, an object that is no image
\* or several objects are active does not enter crop mode: isCropMode stays
\* false, no overlay is stored or added, and no object of the canvas changes.
C19_CropNeedsImage ==
    [][(activeTool # "crop" /\ ~CropTarget /\ handleToolChange("crop"))
       => /\ isCropMode' = FALSE
          /\ cropRect' = NoRef
          /\ Scene' = Scene]_vars

\* C20: a crop session entered on an image and cancelled at once leaves the
\* canvas serializing to what it did before the entry, objects, order and the
\* selectable / evented flags included, with no overlay stored and the mode
\* off.
C20_CancelRestores ==
    recent.op = "cancel"
    => /\ Scene = recent.scene
       /\ cropRect = NoRef
       /\ cropImage = NoRef
       /\ ~isCropMode

\* A session on an image next to a text has been cancelled.
C20_Witness ==
    /\ recent.op = "cancel"
    /\ HasImage(recent.scene)
    /\ Len(recent.scene) = 2

\* The operators in their canonical order, and what makes a descriptor's
\* parameter for one of them non-neutral.
Canonical ==
    <<"Brightness", "Contrast", "Saturation", "HueRotation", "Blur",
      "Grayscale", "Sepia", "Invert">>

NonNeutral(d, type) ==
    CASE type = "Brightness" -> d.brightness # 0
      [] type = "Contrast" -> d.contrast # 0
      [] type = "Saturation" -> d.saturation # 0
      [] type = "HueRotation" -> d.hue # 0
      [] type = "Blur" -> d.blur # 0
      [] type = "Grayscale" -> d.grayscale
      [] type = "Sepia" -> d.sepia
      [] type = "Invert" -> d.invert

Types(list) == [k \in DOMAIN list |-> list[k].type]

\* C14: applyFilters(d) with an image active leaves the image with the
\* operators, in the canonical order and once each, whose parameter in d is
\* non-neutral, and with no other.
C14_FilterListCanonical ==
    recent.op = "filter"
    => \A a \in activeObjects :
          Types(heap[a].filters) = SelectSeq(Canonical, LAMBDA t : NonNeutral(recent.arg, t))

\* An image of the canvas has three operators of the canonical list, the
\* ones between them left out.
C14_Witness ==
    \E k \in DOMAIN objects :
        Types(heap[objects[k]].filters) = <<"Brightness", "HueRotation", "Sepia">>

\* C15: the operator list applyFilters(d) leaves depends on d alone: d applied
\* twice in a row, and d applied, then d with one boolean switched on, then d
\* again, leave the canvas as d applied once left it.
C15_FilterListOfDescriptorOnly ==
    recent.op \in {"twice", "again"} => Scene = recent.scene

\* d, d with a boolean switched on and d again have been applied to an image
\* that has two operators or more.
C15_Witness ==
    /\ recent.op = "again"
    /\ \E k \in DOMAIN objects : Len(heap[objects[k]].filters) >= 2

\* C16: a project file without version or without canvasState is refused
\* before anything is written: the canvas, canvasSize, isCarouselMode,
\* carouselSlides, carouselSlideSize, imageFilters and the timeline with its
\* cursor are what they were before the file was opened.
C16_InvalidProjectRejected ==
    recent.op = "rejected" => Scene = recent.scene /\ Loadable = recent.arg

\* A file has been refused over a canvas and settings that an earlier file
\* had loaded.
C16_Witness ==
    /\ recent.op = "rejected"
    /\ Len(objects) > 0
    /\ canvasSize.width # CanvasWidth
    /\ isCarouselMode
    /\ DOMAIN imageFilters # {}

\* What is seen of a drawn object: everything but its interaction flags.
Appearance(v) ==
    [kind |-> v.kind, src |-> v.src, left |-> v.left, top |-> v.top,
     width |-> v.width, scaleX |-> v.scaleX, angle |-> v.angle,
     filters |-> v.filters, text |-> v.text]

\* The objects of `scene` whose extent [left, left + width*scaleX) overlaps
\* slide k of width W, in scene order, each moved left by k*W.
RECURSIVE Overlapping(_, _, _)
Overlapping(scene, k, W) ==
    IF scene = <<>> THEN <<>>
    ELSE LET v == Head(scene)
             rest == Overlapping(Tail(scene), k, W)
         IN IF v.left < (k + 1) * W /\ v.left + v.width * v.scaleX > k * W
            THEN <<Appearance([v EXCEPT !.left = @ - k * W])>> \o rest
            ELSE rest

\* C17: in an export of a carousel of N > 1 slides of width W, the output
\* of slide k shows the background and, over it, exactly the objects of the
\* scene whose horizontal extent overlaps [k*W, (k+1)*W), in scene order,
\* each translated by -k*W.
C17_SlideShowsOverlappingObjects ==
    (recent.op = "export" /\ recent.arg.outcome = "ok"
        /\ recent.arg.slide < recent.arg.slides)
    => LET raster == downloads[Len(downloads)].raster
       IN [k \in 1..Len(raster) |-> Appearance(raster[k])]
          = <<Appearance(Background)>>
            \o Overlapping(recent.scene, recent.arg.slide, recent.arg.width)

\* C18: in an export of a carousel of N > 1 slides, a failure while slide i
\* is produced does not end the export: with slides left, the export goes on
\* with slide i + 1.
C18_SlideFailureIsolated ==
    (recent.op = "export" /\ recent.arg.outcome = "throws"
        /\ recent.arg.slide < recent.arg.slides - 1)
    => /\ exportJob.phase = "slides"
       /\ exportJob.slide = recent.arg.slide + 1

\* C21: a crop session adds one image however often it is applied: when the
\* decode of a second apply of the same session follows the decode of the
\* first, it adds no object to a canvas on which the first has already
\* replaced the original and the overlay by the cropped image.
C21_AppliedOnce ==
    recent.op = "redecoded" => toJSON(objects, heap) = recent.scene

\* C22: the zoom factor is at least 0.1 and at most 5.0 in every state,
\* after any zoom command, wheel event, resize of the viewport or change of
\* the canvas size.
C22_ZoomInRange ==
    MinZoom <= currentZoom /\ currentZoom <= MaxZoom

Abs(n) == IF n < 0 THEN -n ELSE n

\* C23: after a zoom from z1 to z2 anchored at the screen position p, the
\* canvas point under p is the one that was under p before: (scroll' + p) / z2
\* = (scroll + p) / z1, to within one pixel of the screen.
C23_ZoomKeepsPointUnderPointer ==
    recent.op = "zoom"
    => Abs((scrollLeft + recent.arg.p) * recent.arg.z1
           - (recent.arg.scroll + recent.arg.p) * currentZoom)
       <= Abs(recent.arg.z1)

\* C24: undo() with the cursor at 0 or below and redo() with the cursor on
\* the last snapshot or beyond change nothing: the canvas, the timeline, the
\* cursor and the replay flag are as they were at the call.
C24_EdgeCallsChangeNothing ==
    recent.op \in {"undo", "redo"}
    => /\ toJSON(objects, heap) = recent.scene
       /\ <<historyRef, historyIndexRef, isUndoRedoRef, objects>> = recent.arg

\* An undo() at the first snapshot of a timeline that holds later ones.
C24_Witness ==
    recent.op = "undo" /\ historyIndexRef = 0 /\ Len(historyRef) > 1

\* C25: outside crop mode the canvas holds no crop overlay rectangle, and no
\* object that a crop session has left non-selectable or non-evented.
C25_NoCropLeftovers ==
    ~isCropMode
    => \A k \in DOMAIN objects :
          /\ heap[objects[k]].kind # "rect"
          /\ heap[objects[k]].selectable
          /\ heap[objects[k]].evented

\* C26: while a media item stays selected, a change of the media list or of
\* the canvas size adds no image: it starts no decode of an image for the
\* canvas.
C26_OnlyCommandsAddImages ==
    [][(/\ selectedMedia' = selectedMedia
        /\ mediaItems' # mediaItems \/ canvasSize' # canvasSize)
       => imageLoads' = imageLoads]_vars

\* `v` but for its operator list.
Unfiltered(v) == [v EXCEPT !.filters = <<>>]

\* C27: applyFilters(d) changes the operator list of the active object when
\* that is one image, and nothing else: with no selection, an active object
\* that is no image or a selection of several, the canvas is as it was; in
\* every case the other objects, the object order, the timeline with its
\* cursor and the clipboard are as they were.
C27_FiltersTouchActiveImageOnly ==
    recent.op = "applied"
    => /\ objects = recent.arg.objects
       /\ <<historyRef, historyIndexRef>> = recent.arg.history
       /\ clipboardRef = recent.arg.clipboard
       /\ \A k \in DOMAIN objects :
             IF k = recent.arg.target
             THEN Unfiltered(heap[objects[k]]) = Unfiltered(recent.scene[k])
             ELSE heap[objects[k]] = recent.scene[k]

\* A descriptor that sets operators has been applied to the active image,
\* a text beside it on the canvas.
C27_Witness ==
    /\ recent.op = "applied"
    /\ recent.arg.target # 0
    /\ Len(objects) = 2
    /\ heap[objects[recent.arg.target]].filters # <<>>

\* C28: a step of an export, its start with the deselection and each of the
\* slides it draws and downloads, leaves the objects of the canvas, their
\* attributes and order, the timeline with its cursor and the clipboard as
\* they were.
C28_ExportLeavesSceneHistoryClipboard ==
    [][(exportJob' # exportJob \/ downloads' # downloads)
       => /\ objects' = objects
          /\ toJSON(objects', heap') = toJSON(objects, heap)
          /\ historyRef' = historyRef
          /\ historyIndexRef' = historyIndexRef
          /\ clipboardRef' = clipboardRef]_vars

\* C29: when the last clone of a paste has been added to the canvas, the
\* selection is exactly the set of the objects that paste added.
C29_PasteSelectsPasted ==
    recent.op = "pasted" => activeObjects = recent.arg.added

\* C30: after a Delete or Backspace the canvas holds, in their order and
\* with their attributes, exactly the objects that were not selected, and
\* nothing is selected; when a text was being edited the objects of the
\* canvas and the selection are as before; with nothing selected the canvas
\* and the timeline are as before.
Remaining == SelectSeq(recent.arg.objects, LAMBDA r : r \notin recent.arg.selection)

C30_DeleteRemovesSelection ==
    recent.op = "key"
    => IF recent.arg.editing
       THEN /\ objects = recent.arg.objects
            /\ activeObjects = recent.arg.selection
       ELSE /\ objects = Remaining
            /\ \A r \in Range(objects) : heap[r] = recent.arg.attrs[r]
            /\ activeObjects = {}
            /\ recent.arg.selection = {}
                  => /\ toJSON(objects, heap) = recent.scene
                     /\ <<historyRef, historyIndexRef>> = recent.arg.history

\* A Delete with one of two objects selected has removed it.
C30_Witness ==
    /\ recent.op = "key"
    /\ ~recent.arg.editing
    /\ Len(recent.arg.objects) = 2
    /\ Cardinality(recent.arg.selection) = 1
    /\ Len(objects) = 1

\* A Delete while a text with typed characters is edited.
C30_WitnessEditing ==
    /\ recent.op = "key"
    /\ recent.arg.editing
    /\ isEditing # <<>>
    /\ heap[isEditing[1].target].text # isEditing[1].textBeforeEdit

\* C31: the signature of the last external image changes only in a step
\* that inserts an external image into the canvas.
C31_SignatureFollowsInsertion ==
    [][lastSystemImageHash' # lastSystemImageHash
       => /\ Len(objects') = Len(objects) + 1
          /\ heap'[objects'[Len(objects')]].src = "clipboard"]_vars

\* C32: after a pointer move during a pan the scroll position is the one
\* at the pan's start minus the distance the pointer has gone since; after
\* a pointer move outside a pan it is what it was.
C32_PanFollowsPointer ==
    recent.op = "moved"
    => IF recent.arg.panning /\ recent.arg.start # <<>>
       THEN scrollLeft = recent.arg.start[1].scrollLeft
                            - (recent.arg.x - recent.arg.start[1].x)
       ELSE scrollLeft = recent.arg.before

\* C33: a step that changes what the canvas serializes to, no replay and no
\* drag being in progress after it, leaves that serialization at the
\* timeline's cursor.
C33_SceneChangesAreCommitted ==
    [][(/\ toJSON(objects', heap') # toJSON(objects, heap)
        /\ ~isUndoRedoRef'
        /\ currentTransform'.action = "none")
       => /\ historyIndexRef' + 1 \in DOMAIN historyRef'
          /\ toJSON(objects', heap') = historyRef'[historyIndexRef' + 1]]_vars

C35_ClipboardIsLatestCopy ==
    pendingClones = EmptyBag => BagOfSeq(clipboardRef) = lastCopy.clones

\* C36: the operator list of every image of the canvas is the pipeline of
\* the descriptor stored for its id, or of the neutral descriptor when none
\* is stored.
Neutral ==
    [brightness |-> 0, contrast |-> 0, saturation |-> 0, hue |-> 0, blur |-> 0,
     grayscale |-> FALSE, sepia |-> FALSE, invert |-> FALSE]

StoredDescriptor(id) ==
    IF id \in DOMAIN imageFilters THEN imageFilters[id] ELSE Neutral

C36_OperatorsMatchStoredDescriptor ==
    \A k \in DOMAIN objects :
        heap[objects[k]].kind = "image"
        => heap[objects[k]].filters
              = pushFilters(<<>>, StoredDescriptor(heap[objects[k]].id))

\* C37: no snapshot of the timeline holds a crop overlay rectangle or an
\* object that is not selectable or takes no events.
C37_NoCropStateInTimeline ==
    \A s \in DOMAIN historyRef : \A k \in DOMAIN historyRef[s] :
        /\ historyRef[s][k].kind # "rect"
        /\ historyRef[s][k].selectable
        /\ historyRef[s][k].evented


\* C38: a project load that ends in an error is all-or-nothing: after a
\* file with version and canvasState whose canvasState does not parse, the
\* canvas, canvasSize, isCarouselMode, carouselSlides, carouselSlideSize,
\* imageFilters and the timeline are what they were before the load.
C38_FailedLoadChangesNothing ==
    recent.op = "failed" => Scene = recent.scene /\ Loadable = recent.arg

\* The part of C38 that the catch block does keep: the canvas and the
\* timeline of a failed load are untouched.
C38_FailedLoadKeepsScene ==
    recent.op = "failed"
    => /\ Scene = recent.scene
       /\ historyRef = recent.arg[6]
       /\ historyIndexRef = recent.arg[7]


\* The slide that a step of a carousel export has just downloaded, as
\* drawSlide draws it from `scene`, dispose() resetting the canvas or not.
SlideDrawnFrom(scene) ==
    LET i == downloads'[Len(downloads')].slide - 1
    IN {drawSlide(<<Background>>, scene, i * exportJob.slideWidth,
                  (i + 1) * exportJob.slideWidth, disposeResets) :
           disposeResets \in BOOLEAN}

\* A step of the export of a carousel of several slides downloads a slide.
DownloadsSlide ==
    /\ exportJob.phase \in {"waiting", "slides"}
    /\ exportJob.carousel /\ exportJob.slides > 1
    /\ Len(downloads') = Len(downloads) + 1

\* C39: every slide of one export of a carousel of N > 1 slides is
\* produced from the canvas as it was when the export started: an edit made
\* while the export waits does not show in the slides drawn after it.
C39_SlidesFromSceneAtStart ==
    [][DownloadsSlide
       => downloads'[Len(downloads')].raster \in SlideDrawnFrom(exportScenes[1])]_vars

\* C39, between the slides of one export only: a slide after the first
\* drawn one is produced from the canvas the first one was drawn from.
C39_SlidesAgree ==
    [][(DownloadsSlide /\ Len(exportScenes) = 2)
       => downloads'[Len(downloads')].raster \in SlideDrawnFrom(exportScenes[2])]_vars

\* C39, the clones: a slide is encoded after the clone of every object that
\* overlaps it was drawn on it, so the last overlapping object of the canvas
\* shows in the slide whenever dispose() leaves the canvas as drawn.
C39_ClonesDrawnBeforeEncoding ==
    [][DownloadsSlide
       => LET i == downloads'[Len(downloads')].slide - 1
              W == exportJob.slideWidth
              over == Overlapping(toJSON(objects, heap), i, W)
              raster == downloads'[Len(downloads')].raster
          IN over # <<>>
             => \/ raster = <<>>
                \/ Appearance(raster[Len(raster)]) = over[Len(over)]]_vars

====
